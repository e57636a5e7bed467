------------------------------ MODULE SourceGroups ------------------------------
(***************************************************************************)
(* Whose feedback a source row is.  A file of utterances in a row, with    *)
(* explicit resets, is cut into conversations twice: by WildFeedbackMapper *)
(* of src/whynote/explore_inputs.py, row after row when the targets are    *)
(* prepared (explore_prepare.py), and much later, over the numbers and     *)
(* roles alone, by segments and group_original of two_stage_groups.py,     *)
(* which take the label of the next user turn (evaluation_signals.py) for  *)
(* a signal about the target.  The preparation has limits and counts the   *)
(* bytes of a conversation; the later reader does neither, and reads the   *)
(* row after a target whether or not the preparation came to it.           *)
(***************************************************************************)
EXTENDS Naturals, Sequences, FiniteSets

CONSTANTS
  Utterances,  \* the rows that a file may hold
  MaxRows,
  Limits,      \* record_limit and target_limit that a preparation may be given
  MaxBytes,    \* MAX_RECORD: the bytes of a conversation
  Unbound      \* no number, no start

ASSUME SourceAssumption ==
  /\ MaxRows \in Nat /\ MaxBytes \in Nat /\ Unbound \notin Nat
  /\ \A row \in Utterances : row.bytes \in Nat /\ row.related \in BOOLEAN

VARIABLES
  rows,      \* the file as far as anyone reads it
  limit,     \* the limits of this preparation
  prepared,  \* how many of the rows the preparation has read
  mapper,    \* WildFeedbackMapper: the number it expects, the row its context starts at, its bytes
  originals  \* the targets prepared, the answers of the agent

sourceVars == <<rows, limit, prepared, mapper, originals>>

RoleAt(number) == IF number % 2 = 0 THEN "User" ELSE "Agent"
TurnAt(number) == number \div 2 + 1

FreshMapper == [expected |-> Unbound, start |-> Unbound, bytes |-> 0]
SourceInit ==
  /\ rows = << >> /\ limit \in Limits /\ prepared = 0
  /\ mapper = FreshMapper /\ originals = {}

-----------------------------------------------------------------------------
(* The preparation *)

\* The row is too long, or no JSON: for both readers.
Unreadable(row) == row.shape = "unreadable"

\* map: a reset begins a conversation, and a row that does not continue it, has no text
\* (no bytes) or is too much for it ends it.
MapRow(m, index, row) ==
  LET at == IF row.number = 0 THEN [expected |-> 0, start |-> index, bytes |-> 0] ELSE m
      total == at.bytes + row.bytes
      fits == /\ at.expected # Unbound /\ row.number = at.expected
              /\ row.turn = TurnAt(row.number) /\ row.role = RoleAt(row.number)
              /\ row.bytes > 0 /\ total <= MaxBytes
  IN  IF Unreadable(row) THEN [ok |-> FALSE, mapper |-> FreshMapper]
      ELSE [ok |-> fits, mapper |-> [start |-> at.start,
                                     expected |-> IF fits THEN at.expected + 1 ELSE Unbound,
                                     bytes |-> IF fits THEN total ELSE 0]]

\* The preparation reads no further: it has read enough rows, or has targets enough.
ReadEnough == prepared >= limit.records \/ Cardinality(originals) >= limit.targets

\* An answer becomes a target, and the user's turn after it its feedback.
Scan ==
  /\ ~ReadEnough /\ Len(rows) < MaxRows
  /\ \E row \in Utterances :
       LET index == Len(rows) + 1
           mapped == MapRow(mapper, index, row)
           Follows(o) == mapped.ok /\ row.role = "User" /\ row.number # 0 /\ o.row = index - 1
       IN  /\ rows' = Append(rows, row) /\ prepared' = index /\ UNCHANGED limit
           /\ mapper' = mapped.mapper
           /\ originals' =
                {IF Follows(o) THEN [o EXCEPT !.feedback = index] ELSE o : o \in originals}
                \cup (IF mapped.ok /\ row.role = "Agent"
                        THEN {[row |-> index, start |-> mapped.mapper.start, number |-> row.number,
                               feedback |-> Unbound]}
                        ELSE {})

\* A row that only the later reader comes to.
LeaveUnread ==
  /\ ReadEnough /\ Len(rows) < MaxRows
  /\ \E row \in Utterances : rows' = Append(rows, row)
  /\ UNCHANGED <<limit, prepared, mapper, originals>>

SourceNext == Scan \/ LeaveUnread

SourceSpec == SourceInit /\ [][SourceNext]_sourceVars

-----------------------------------------------------------------------------
(* The groups *)

\* selected_source_rows: a field that occurs twice spoils the row, as its length does.
Selectable(row) == row.shape = "fine"

Unstarted == [start |-> Unbound, expected |-> Unbound]

\* Mutant: a broken conversation goes on where its numbers go on.
PutWithGaps(s, index) ==
  LET row == rows[index]
      start == IF Selectable(row) /\ row.number = 0 THEN index ELSE s.start
      valid == /\ Selectable(row) /\ start # Unbound
               /\ row.turn = TurnAt(row.number) /\ row.role = RoleAt(row.number)
               /\ index = start + row.number
  IN  IF valid THEN [start |-> start, expected |-> row.number + 1] ELSE s

\* A turn of the loop of segments: a broken conversation stays unbound until the next reset.
Put(s, index) ==
  LET row == rows[index]
      reset == Selectable(row) /\ row.number = 0
      start == IF reset THEN index ELSE s.start
      expected == IF reset THEN 0 ELSE s.expected
      valid == /\ Selectable(row) /\ start # Unbound /\ row.number = expected
               /\ row.turn = TurnAt(row.number) /\ row.role = RoleAt(row.number)
               /\ index = start + row.number
  IN  IF valid THEN [start |-> start, expected |-> expected + 1] ELSE Unstarted

\* segments: row -> where its conversation starts.
Segments ==
  LET cut[n \in 0 .. Len(rows)] == IF n = 0 THEN Unstarted ELSE Put(cut[n - 1], n)
  IN  [n \in 1 .. Len(rows) |-> cut[n].start]

StartOf(starts, index) == IF index \in DOMAIN starts THEN starts[index] ELSE Unbound

\* What group_original checks before it believes a target.
Bound(original, starts) ==
  /\ StartOf(starts, original.row) # Unbound
  /\ original.start = StartOf(starts, original.row)
  /\ rows[original.row].number = original.number

\* The turn after the target: its row may be the end of the file, or spoilt.
Following(original) ==
  IF original.row + 1 \in DOMAIN rows /\ Selectable(rows[original.row + 1])
    THEN {rows[original.row + 1]} ELSE {}

\* wildfeedback: the labels of a linked turn.
Signal(label) == CASE label = "both" -> "mixed_signal"
                   [] label = "sat" -> "positive_signal"
                   [] label = "dsat" -> "negative_signal"
                   [] label \in {"neither", "invalid"} -> "unclear_signal"

Continues(original, next, starts) ==
  LET target == rows[original.row] IN
  /\ StartOf(starts, original.row + 1) = StartOf(starts, original.row)
  /\ target.role = "Agent" /\ next.role = "User"
  /\ next.number = target.number + 1 /\ next.turn = target.turn + 1

\* group_original.
GroupOf(original) ==
  LET starts == Segments
      linked == {next \in Following(original) :
                   Bound(original, starts) /\ Continues(original, next, starts) /\ next.related}
  IN  IF linked = {} \/ ~Selectable(rows[original.row]) THEN "unclear_signal"
      ELSE LET next == CHOOSE n \in linked : TRUE IN Signal(next.label)

-----------------------------------------------------------------------------
(* Properties *)

\* Rows from start to last are one conversation from its first turn on.
Unbroken(start, last) ==
  \A i \in start .. last : /\ i \in DOMAIN rows /\ Selectable(rows[i])
                           /\ rows[i].number = i - start
                           /\ rows[i].turn = TurnAt(i - start) /\ rows[i].role = RoleAt(i - start)

\* The bytes of the rows from start to last.
Volume(file, start, last) ==
  LET upto[n \in 0 .. Len(file)] == IF n = 0 THEN 0 ELSE upto[n - 1] + file[n].bytes
  IN  upto[last] - upto[start - 1]

\* A turn the preparation came to, that has a text and leaves its conversation small enough.
Kept(start, index) ==
  index <= prepared /\ rows[index].bytes > 0 /\ Volume(rows, start, index) <= MaxBytes

\* The two readers cut alike: a target prepared is bound again exactly when every row
\* of its conversation can still be selected, and a signal is only ever taken from the
\* user's turn that follows the target in one unbroken conversation
\* (two_stage_groups.py:592).  The target has that turn's text as feedback unless the
\* preparation stopped before it (explore_prepare.py:143), the turn is empty or it makes
\* the conversation too large (explore_inputs.py:250), for none of which the later reader
\* looks; and where the text was kept, nothing but the turn's label or topic leaves the
\* target without a signal.
FeedbackIsOfNextTurn ==
  LET starts == Segments IN
  \A o \in originals :
    /\ Bound(o, starts) <=> \A i \in o.start .. o.row : Selectable(rows[i])
    /\ GroupOf(o) # "unclear_signal" =>
         /\ Unbroken(o.start, o.row + 1)
         /\ o.feedback = o.row + 1 <=> Kept(o.start, o.row + 1)
    /\ o.feedback # Unbound /\ Unbroken(o.start, o.feedback) /\ rows[o.feedback].related
         => GroupOf(o) = Signal(rows[o.feedback].label)

=============================================================================
