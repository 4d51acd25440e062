----------------------------- MODULE UsersFile -----------------------------
(***************************************************************************)
(* Users.db as the text it is (src/lib/csv, ProfilePersistency), below the *)
(* rows of ProfileManager, and what a crash in the middle of a save leaves *)
(* of it.  The text is a sequence of user names, delimiters and newlines;  *)
(* a name holds neither.                                                   *)
(*                                                                         *)
(* The mutex is held from the change in memory to the close of the file:   *)
(* nobody sees the one without the other, so memory is changed here when   *)
(* the text is.  The text is flushed by close(), in one write() while it   *)
(* fits into the buffer of the stream.                                     *)
(***************************************************************************)
EXTENDS ProfileManager, SequencesExt

CONSTANT Missing   \* there is no Users.db

VARIABLES
    file,     \* Missing, or the text of Users.db
    saving,   \* <<>>, or what the thread that holds the mutex is about to write
    broken    \* the process met an empty row at its start and died

fileVars == <<m_users, usersDb, file, saving, broken>>

Comma   == ","
NewLine == "\n"
Text    == Seq(Username \cup {Comma, NewLine})

NewUser(u, t)     == [what |-> "user", user |-> u, thread |-> t]
NewFollower(u, f) == [what |-> "follower", user |-> u, follower |-> f]
-----------------------------------------------------------------------------
(* Reading.                                                                *)

\* getline until the end of the file: one line more than there are newlines, so
\* that the empty file has one, empty, line.
Lines(text) ==
    FoldLeft(LAMBDA lines, token :
                 IF token = NewLine THEN Append(lines, <<>>)
                 ELSE [lines EXCEPT ![Len(lines)] = Append(@, token)],
             << <<>> >>, text)

\* CSVReader::readAll, and the same loop in CSVWriter::appendToLine.
ReadAll(text) ==
    LET lines == Lines(text)
    IN  [i \in DOMAIN lines |-> SelectSeq(lines[i], LAMBDA token : token # Comma)]

\* What readUsers makes of the rows; it takes row[0] of each without a look.
Readable(text) == text = Missing \/ \A row \in ToSet(ReadAll(text)) : row # <<>>

Contents(text) ==
    IF text = Missing THEN <<>>
    ELSE LET rows == ReadAll(text)
         IN  [i \in DOMAIN rows |-> [user |-> Head(rows[i]), followers |-> ToSet(Tail(rows[i]))]]
-----------------------------------------------------------------------------
(* Writing.                                                                *)

Join(parts, delimiter) ==
    FoldLeft(LAMBDA text, part : IF text = <<>> THEN part ELSE text \o <<delimiter>> \o part,
             <<>>, parts)

FormatLine(row) == Join([i \in DOMAIN row |-> <<row[i]>>], Comma)
Format(rows)    == Join([i \in DOMAIN rows |-> FormatLine(rows[i])], NewLine)

\* Mutant of AppendRow: every row follows a newline.
AppendAfterNewLine(text, row) == text \o <<NewLine>> \o FormatLine(row)

\* CSVWriter::append: isEmpty decides whether a newline comes first.
AppendRow(text, row) ==
    IF text = <<>> THEN FormatLine(row) ELSE text \o <<NewLine>> \o FormatLine(row)

\* Writing starts at position 0 and truncates nothing.
Overwrite(text, new) == new \o SubSeq(text, Len(new) + 1, Len(text))

\* Mutant of AppendToLine: the rows before the one that matches are not written.
AppendToRow(text, user, column) ==
    LET rows == SelectSeq(ReadAll(text), LAMBDA row : row[1] = user)
    IN  Overwrite(text, Format([i \in DOMAIN rows |-> Append(rows[i], column)]))

\* CSVWriter::appendToLine: all rows are read and written again, those of the
\* user with one more column.
AppendToLine(text, user, column) ==
    LET rows == ReadAll(text) IN
    IF rows[1] = <<>> THEN text
    ELSE Overwrite(text, Format([i \in DOMAIN rows |->
             IF rows[i] # <<>> /\ rows[i][1] = user THEN Append(rows[i], column) ELSE rows[i]]))
-----------------------------------------------------------------------------
Ready == saving = <<>> /\ ~broken

FileInit ==
    /\ ProfileInit
    /\ file = IF InitialDb = <<>> THEN Missing
              ELSE Format([i \in DOMAIN InitialDb |->
                       <<InitialDb[i].user>> \o SetToSeq(InitialDb[i].followers)])
    /\ saving = <<>>
    /\ broken = FALSE

\* Operations that leave the file alone.
KnownUser(u, t) ==
    /\ Ready
    /\ u \in DOMAIN m_users
    /\ StartSession(u, t)
    /\ UNCHANGED <<file, saving, broken>>

Close(u, t) ==
    /\ Ready
    /\ InList(m_users[u].m_sessions, t)
    /\ CloseSession(u, t)
    /\ UNCHANGED <<file, saving, broken>>

\* CSVWriter::open: a file that is missing is created, empty.
Open(save) ==
    /\ Ready
    /\ \/ save.what = "user" /\ save.user \notin DOMAIN m_users
       \/ save.what = "follower" /\ CanFollow(save.follower, save.user)
    /\ saving' = save
    /\ file' = IF file = Missing THEN <<>> ELSE file
    /\ UNCHANGED <<profileVars, broken>>

\* The row or the column is written and the mutex released.
WriteUser ==
    /\ saving # <<>> /\ saving.what = "user"
    /\ StartSession(saving.user, saving.thread)
    /\ file' = AppendRow(file, <<saving.user>>)
    /\ saving' = <<>>
    /\ UNCHANGED broken

WriteFollower ==
    /\ saving # <<>> /\ saving.what = "follower"
    /\ Follow(saving.follower, saving.user)
    /\ file' = AppendToLine(file, saving.user, saving.follower)
    /\ saving' = <<>>
    /\ UNCHANGED broken

\* The process dies, perhaps in the middle of a save, and starts again.
Crash ==
    /\ ~broken
    /\ saving' = <<>>
    /\ IF Readable(file)
       THEN /\ usersDb' = Contents(file)
            /\ m_users' = ReadUsers(usersDb')
            /\ UNCHANGED broken
       ELSE /\ broken' = TRUE
            /\ UNCHANGED profileVars
    /\ UNCHANGED file

FileNext ==
    \/ \E u \in DOMAIN m_users :
          \/ \E t \in Thread \ OpenSessions : KnownUser(u, t)
          \/ \E t \in OpenSessions : Close(u, t)
    \/ \E u \in Username, t \in Thread \ OpenSessions : Open(NewUser(u, t))
    \/ \E u, f \in Username : Open(NewFollower(u, f))
    \/ WriteUser
    \/ WriteFollower
    \/ Crash

FileSpec == FileInit /\ [][FileNext]_fileVars
-----------------------------------------------------------------------------
FileTypeOK ==
    /\ ProfileTypeOK
    /\ file \in Text \cup {Missing}
    /\ saving # <<>> => saving.what \in {"user", "follower"}
    /\ broken \in BOOLEAN

\* Only the very first save can leave a file that cannot be loaded: open() has
\* created it and nothing is written yet.
BreaksOnlyAtFirst ==
    [][broken' # broken => saving # <<>> /\ saving.what = "user" /\ usersDb = <<>>]_fileVars

\* On the text, crashes in the middle of a save included, the operations are
\* those ProfileManager specifies on rows.
SavesWhatItSpecifies == ProfileSpec

=============================================================================
