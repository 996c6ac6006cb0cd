-------------------------------- MODULE Tail -------------------------------
(***************************************************************************)
(* How a log file is followed (tailFile and tailOnce in logwatch.go): by   *)
(* polling its size and reading what was appended, while the service       *)
(* writes lines in pieces and logrotate renames or truncates the file.     *)
(* A piece is the head or the end of a line, and the end has the newline.  *)
(***************************************************************************)
EXTENDS Integers, Sequences, SequencesExt

CONSTANTS ReadSize,      \* what one read returns at most: 4096 bytes in the code
          Ways,          \* how logrotate rotates: by "rename", by "truncate"
          MaxLines,      \* bound on the lines logged
          MaxRotations   \* bound on the rotations

ASSUME ReadSizeAssumption == ReadSize \in Nat \ {0}
ASSUME WaysAssumption == Ways \subseteq {"rename", "truncate"}
ASSUME MaxLinesAssumption == MaxLines \in Nat
ASSUME MaxRotationsAssumption == MaxRotations \in Nat

NoFile == 0
Files == 1 .. MaxRotations + 1

VARIABLES
  content,    \* the pieces in each file, by inode
  path,       \* the file at the path of the log, or NoFile
  handle,     \* the file the service has open
  logged,     \* lines the service has begun
  half,       \* the last of them has no end yet
  rotations,  \* rotations so far
  cancelled,  \* the context of the tail
  pc,         \* where the tail is
  fd,         \* the file it has open
  offset,     \* how far it has read it
  partial,    \* pieces of a line without its end
  reported,   \* history: the lines given to matchLine
  start,      \* history: the offset at which fd was opened
  since,      \* history: how many lines had been reported then
  cut         \* history: fd was truncated since then

service == <<content, path, handle, logged, half, rotations>>
history == <<start, since, cut>>
vars == <<service, cancelled, pc, fd, offset, partial, reported, history>>

Piece == [line : 1 .. MaxLines, end : BOOLEAN]

Size(f) == Len(content[f])
-----------------------------------------------------------------------------
Init ==
  /\ content = [f \in Files |-> <<>>]
  /\ path = 1 /\ handle = 1
  /\ logged = 0 /\ half = FALSE
  /\ rotations = 0
  /\ cancelled = FALSE
  /\ pc = "open"
  /\ fd = NoFile /\ offset = 0 /\ partial = <<>>
  /\ reported = <<>>
  /\ start = 0 /\ since = 0 /\ cut = FALSE

\* The service writes the head of a line, or the end of one it has begun.
Log ==
  /\ half \/ logged < MaxLines
  /\ logged' = IF half THEN logged ELSE logged + 1
  /\ half' = ~ half
  /\ content' = [content EXCEPT ![handle] = Append(@, [line |-> logged', end |-> half])]
  /\ UNCHANGED <<path, handle, rotations, cancelled, pc, fd, offset, partial, reported, history>>

\* logrotate moves the file away, puts a new one in its place, and has the
\* service open that.
Rename ==
  /\ "rename" \in Ways /\ rotations < MaxRotations
  /\ path # NoFile /\ handle = path
  /\ path' = NoFile
  /\ rotations' = rotations + 1
  /\ UNCHANGED <<content, handle, logged, half, cancelled, pc, fd, offset, partial, reported, history>>

Create ==
  /\ path = NoFile
  /\ path' = rotations + 1
  /\ UNCHANGED <<content, handle, logged, half, rotations, cancelled, pc, fd, offset, partial,
                 reported, history>>

Reopen ==
  /\ path # NoFile /\ handle # path /\ ~ half
  /\ handle' = path
  /\ UNCHANGED <<content, path, logged, half, rotations, cancelled, pc, fd, offset, partial,
                 reported, history>>

\* Or it copies the file and truncates it (copytruncate).
Truncate ==
  /\ "truncate" \in Ways /\ rotations < MaxRotations
  /\ path # NoFile /\ handle = path
  /\ content' = [content EXCEPT ![path] = <<>>]
  /\ rotations' = rotations + 1
  /\ cut' = (cut \/ path = fd)
  /\ UNCHANGED <<path, handle, logged, half, cancelled, pc, fd, offset, partial, reported, start, since>>

Cancel ==
  /\ ~ cancelled
  /\ cancelled' = TRUE
  /\ UNCHANGED <<service, pc, fd, offset, partial, reported, history>>
-----------------------------------------------------------------------------
Goes(where) == pc' = where /\ UNCHANGED <<service, cancelled, fd, offset, partial, reported, history>>

OpenFrom(place) ==
  /\ fd' = path
  /\ offset' = place
  /\ partial' = <<>>
  /\ pc' = "waiting"
  /\ start' = place /\ since' = Len(reported) /\ cut' = FALSE
  /\ UNCHANGED <<service, cancelled, reported>>

OpenAnyway ==
  /\ pc = "open"
  /\ OpenFrom(IF path = NoFile THEN 0 ELSE Size(path))

OpenAtStart ==
  /\ pc = "open"
  /\ IF path = NoFile THEN Goes("retry") ELSE OpenFrom(0)

\* tailOnce opens the file and seeks to its end.
Open ==
  /\ pc = "open"
  /\ IF path = NoFile THEN Goes("retry") ELSE OpenFrom(Size(path))

PollOpenFile ==
  /\ pc = "waiting"
  /\ Goes(CASE Size(fd) < offset -> "open" [] OTHER -> "reading")

\* The ticker: a file that shrank was rotated and is opened again at once.
Poll ==
  /\ pc = "waiting"
  /\ Goes(CASE path = NoFile -> "retry"
            [] path # NoFile /\ Size(path) < offset -> "open"
            [] OTHER -> "reading")

\* The lines of a sequence of pieces, and what is left after the last of them.
Ends(s) == {i \in DOMAIN s : s[i].end}
EndOf(s, k) == CHOOSE i \in Ends(s) : Cardinality({j \in Ends(s) : j <= i}) = k
LineStart(s, k) == IF k = 1 THEN 1 ELSE EndOf(s, k - 1) + 1
Lines(s) == [k \in 1 .. Cardinality(Ends(s)) |-> SubSeq(s, LineStart(s, k), EndOf(s, k))]

NoRest(s) == <<>>
Rest(s) == SubSeq(s, LineStart(s, Cardinality(Ends(s)) + 1), Len(s))

\* One read and its lines; at the end of the file, back to the ticker.
Read ==
  /\ pc = "reading"
  /\ LET until == IF offset + ReadSize < Size(fd) THEN offset + ReadSize ELSE Size(fd)
         bytes == SubSeq(content[fd], offset + 1, until)
         chunk == partial \o bytes
     IN IF bytes = <<>>
        THEN Goes("waiting")
        ELSE /\ offset' = until
             /\ reported' = reported \o Lines(chunk)
             /\ partial' = Rest(chunk)
             /\ UNCHANGED <<service, cancelled, pc, fd, history>>

\* The context is done; tailFile does not look at it and opens the file again.
Done == pc = "waiting" /\ cancelled /\ Goes("open")

\* After an error tailFile waits for ten seconds, or returns.
Retry == pc = "retry" /\ Goes("open")
Return == pc = "retry" /\ cancelled /\ Goes("returned")

Step == Open \/ Poll \/ Read \/ Done \/ Retry \/ Return

Next == Log \/ Rename \/ Create \/ Reopen \/ Truncate \/ Cancel \/ Step

Spec == Init /\ [][Next]_vars

\* The ticker ticks, a read ends; the service and logrotate need not go on.
FairSpec == Spec /\ WF_vars(Open) /\ WF_vars(Poll) /\ WF_vars(Read) /\ WF_vars(Retry)
-----------------------------------------------------------------------------
\* Among the shapes: a tail that waits or reads has a file.
TypeOK ==
  /\ content \in [Files -> Seq(Piece)]
  /\ path \in Files \cup {NoFile} /\ handle \in Files
  /\ logged \in 0 .. MaxLines /\ half \in BOOLEAN
  /\ rotations \in 0 .. MaxRotations
  /\ cancelled \in BOOLEAN
  /\ pc \in {"open", "waiting", "reading", "retry", "returned"}
  /\ fd \in Files \cup {NoFile}
  /\ pc \in {"waiting", "reading"} => fd # NoFile
  /\ offset \in Nat
  /\ partial \in Seq(Piece)
  /\ reported \in Seq(Seq(Piece))
  /\ start \in Nat /\ since \in 0 .. Len(reported) /\ cut \in BOOLEAN

\* However reads cut the lines, and however often the file was renamed under
\* it: what the tail has read of a file since it opened it is what it reported
\* and the part of a line it holds back, each report one line.
ReadsWhole ==
  pc \in {"waiting", "reading"} /\ ~ cut =>
    LET lines == SubSeq(reported, since + 1, Len(reported)) IN
    /\ FlattenSeq(lines) \o partial = SubSeq(content[fd], start + 1, offset)
    /\ \A k \in DOMAIN lines : Ends(lines[k]) = {Len(lines[k])}
    /\ Ends(partial) = {}

\* Lines are reported in the order in which they were logged, and once, across
\* rotations of either kind.
OnceInOrder ==
  \A i, j \in DOMAIN reported :
    i < j => Last(reported[i]).line < Last(reported[j]).line

\* A file at the path that is smaller than what was read is noticed, unless it
\* grows beyond that first.
ShrinkNoticed ==
  (pc = "waiting" /\ path # NoFile /\ Size(path) < offset) ~>
    (pc = "open" \/ path = NoFile \/ Size(path) >= offset)

\* A rotation is noticed: a tail that is not cancelled comes to have the file at
\* the path.
RotationNoticed ==
  (~ cancelled /\ pc = "waiting" /\ path \notin {NoFile, fd}) ~>
    (cancelled \/ path = NoFile \/ path = fd)
=============================================================================
