----------------------- MODULE ScheduledMessages_proofs -----------------------
(***************************************************************************)
(* Proofs about ScheduledMessages: what the lease guarantees for any       *)
(* number of runs, authors and intents, whatever fails.                    *)
(***************************************************************************)
EXTENDS ScheduledMessages, TLAPS

-----------------------------------------------------------------------------
(* The inductive invariant.                                                 *)

Working == {"read", "guard", "insert", "follow", "release"}

(* A row deleted with its channel, and the messages of a deleted channel. *)
Rows ==
    \A i \in Ids :
      /\ row[i].status = "deleted" => access[i] = "gone"
      /\ access[i] = "gone" => ~Posted(i) /\ row[i].status \in {"absent", "deleted"}
      /\ Posted(i) => row[i].status # "absent"

(* What is still true of an intent a run has listed, or works on. *)
KnowsList(p) ==
    \A e \in run[p].todo :
      /\ row[e.id].status # "absent"
      /\ row[e.id].at <= run[p].as \/ e.id \in moved

KnowsRow(p, i) ==
    /\ row[i].status \in {"sent", "deleted"}
    /\ run[p].pc \in {"read", "guard", "insert"} => ~Posted(i) \/ i \in undone
    /\ run[p].pc \in {"guard", "insert"} /\ row[i].status = "sent" =>
         run[p].text = row[i].text /\ run[p].at = row[i].at
    /\ run[p].pc = "follow" => Posted(i) \/ row[i].status = "deleted"
    /\ run[p].pc = "read" => row[i].at <= run[p].as \/ i \in moved
    /\ run[p].pc \in {"guard", "insert"} => run[p].at <= run[p].as \/ i \in moved

Knows(p) == /\ KnowsList(p)
            /\ \A i \in Ids : Holds(p, i) => KnowsRow(p, i)

(* One run at most holds an intent. *)
Alone == \A i \in Ids : \A p, q \in Senders : Holds(p, i) /\ Holds(q, i) => p = q

(* What an edit read still stands, unless another edit passed it. *)
Reads(a) == cmd[a].pc = "edit" =>
    /\ row[cmd[a].id].status # "absent"
    /\ ~cmd[a].asked /\ ~cmd[a].passed => cmd[a].at = row[cmd[a].id].at

Inv == /\ TypeOK
       /\ Rows
       /\ \A p \in Senders : Knows(p)
       /\ Alone
       /\ \A a \in Authors : Reads(a)
       /\ SentIsAccountedFor
       /\ PostedAsWritten
       /\ NeverEarly

-----------------------------------------------------------------------------
(* Typing.                                                                  *)

LEMMA Typed == ASSUME TypeOK, NEW i \in Ids
               PROVE /\ row[i] \in Row
                     /\ msg[i] \in Message \cup {NoMessage}
                     /\ Posted(i) \in BOOLEAN
                     /\ Posted(i) => msg[i] \in Message
<1>1. row[i] \in Row /\ msg[i] \in Message \cup {NoMessage}
  BY DEF TypeOK
<1>2. \A m \in Message : m.posted = TRUE
  BY DEF Message
<1>3. NoMessage.posted = FALSE
  BY DEF NoMessage
<1>q. QED  BY <1>1, <1>2, <1>3 DEF Posted

LEMMA AnyTextIsText == AnyText \in Texts
<1>1. \E t : t \in Texts  BY TextsAssumption
<1>2. (CHOOSE t : t \in Texts) \in Texts  BY <1>1
<1>q. QED  BY <1>2, <1>1, Zenon DEF AnyText

LEMMA Numbers == 0 \in Times /\ Times \subseteq Nat /\ None \notin Times /\ None \notin Ids
<1>1. 0 \in Times /\ \A t \in Times : t \in Nat
  BY NumbersAssumption DEF Times
<1>2. \A i \in Ids : i \in Nat
  BY IdsAssumption
<1>3. None \notin Nat
  BY IdsAssumption
<1>q. QED  BY <1>1, <1>2, <1>3

LEMMA IdleTyped == IdleRun \in Run /\ IdleCmd \in Cmd
BY AnyTextIsText, Numbers DEF IdleRun, IdleCmd, Run, Cmd

LEMMA ListingTyped ==
  ASSUME NEW todo \in SUBSET Listed, NEW t \in Times
  PROVE  /\ Listing(todo, t) \in Run
         /\ Listing(todo, t).pc \in {"idle", "next"}
         /\ Listing(todo, t).todo = todo
         /\ Listing(todo, t).as = t \/ todo = {}
BY AnyTextIsText, Numbers DEF Listing, IdleRun, Run

-----------------------------------------------------------------------------
(* What one step may do to the rows under a run that does not move.         *)

Quiet(q) ==
    /\ undone \subseteq undone' /\ moved \subseteq moved'
    /\ \A i \in Ids :
         /\ row[i].status # "absent" => row'[i].status # "absent"
         /\ \/ row'[i].at = row[i].at
            \/ row[i].status = "absent"
            \/ ~Holds(q, i) /\ ((\E e \in run[q].todo : e.id = i) => i \in moved')
         /\ Holds(q, i) =>
              /\ row'[i] = row[i] \/ (row'[i].status = "deleted" /\ row'[i].at = row[i].at)
              /\ Posted(i)' => Posted(i) \/ i \in undone'
              /\ Posted(i) => Posted(i)' \/ row'[i].status = "deleted"

LEMMA KnowsKept ==
  ASSUME TypeOK, NEW q \in Senders, Knows(q), Quiet(q), run'[q] = run[q]
  PROVE  Knows(q)'
<1>1. ASSUME NEW e \in run[q].todo
      PROVE  /\ row'[e.id].status # "absent"
             /\ row'[e.id].at <= run[q].as \/ e.id \in moved'
  <2>1. e.id \in Ids  BY DEF TypeOK, Run, Listed
  <2>2. row[e.id].status # "absent" /\ (row[e.id].at <= run[q].as \/ e.id \in moved)
    BY DEF Knows, KnowsList
  <2>q. QED  BY <2>1, <2>2 DEF Quiet
<1>2. KnowsList(q)'  BY <1>1 DEF KnowsList
<1>3. ASSUME NEW i \in Ids, Holds(q, i)'  PROVE KnowsRow(q, i)'
  <2>1. Holds(q, i)  BY <1>3 DEF Holds
  <2>2. KnowsRow(q, i)  BY <2>1 DEF Knows
  <2>3. row'[i] = row[i] \/ (row'[i].status = "deleted" /\ row'[i].at = row[i].at)
    BY <2>1 DEF Quiet
  <2>4. /\ Posted(i)' => Posted(i) \/ i \in undone'
        /\ Posted(i) => Posted(i)' \/ row'[i].status = "deleted"
    BY <2>1 DEF Quiet
  <2>5. undone \subseteq undone' /\ moved \subseteq moved'  BY DEF Quiet
  <2>q. QED  BY <2>2, <2>3, <2>4, <2>5 DEF KnowsRow
<1>q. QED  BY <1>2, <1>3 DEF Knows

(* A step that moves one run, by what the other runs must not notice. *)
LEMMA OneMoves ==
  ASSUME TypeOK, \A q \in Senders : Knows(q), NEW p \in Senders, NEW r \in Run, Set(p, r),
         \A q \in Senders \ {p} : Quiet(q), Knows(p)'
  PROVE  /\ run' \in [Senders -> Run] /\ run'[p] = r
         /\ \A q \in Senders \ {p} : run'[q] = run[q]
         /\ \A q \in Senders : Knows(q)'
<1>1. run' \in [Senders -> Run] /\ run'[p] = r /\ \A q \in Senders \ {p} : run'[q] = run[q]
  BY DEF Set, TypeOK
<1>2. ASSUME NEW q \in Senders \ {p} PROVE Knows(q)'  BY <1>1, KnowsKept
<1>q. QED  BY <1>1, <1>2

(* A step that moves no run. *)
LEMMA NoneMoves ==
  ASSUME TypeOK, \A q \in Senders : Knows(q), Alone, UNCHANGED run,
         \A q \in Senders : Quiet(q)
  PROVE  (\A q \in Senders : Knows(q)') /\ Alone'
<1>1. ASSUME NEW q \in Senders PROVE Knows(q)'  BY KnowsKept
<1>2. Alone'  BY DEF Alone, Holds
<1>q. QED  BY <1>1, <1>2

(* A run that holds what it held, or nothing, is still alone with it. *)
LEMMA AloneKept ==
  ASSUME Alone, NEW p \in Senders,
         \A q \in Senders \ {p} : run'[q] = run[q],
         \A i \in Ids : Holds(p, i)' => Holds(p, i)
  PROVE  Alone'
<1>1. \A q \in Senders, i \in Ids : Holds(q, i)' => Holds(q, i)
  BY DEF Holds
<1>q. QED  BY <1>1 DEF Alone

LEMMA QuietRows ==
  ASSUME NEW q \in Senders, UNCHANGED row, undone \subseteq undone', moved \subseteq moved',
         \A i \in Ids : Holds(q, i) => (Posted(i)' <=> Posted(i))
  PROVE  Quiet(q)
BY DEF Quiet

LEMMA ReadsKept ==
  ASSUME NEW a \in Authors, Reads(a), TypeOK, cmd'[a] = cmd[a],
         \A i \in Ids : /\ row[i].status # "absent" => row'[i].status # "absent"
                        /\ row[i].status # "absent" => row'[i].at = row[i].at
  PROVE  Reads(a)'
<1>1. cmd[a].pc = "edit" => cmd[a].id \in Ids  BY DEF TypeOK
<1>q. QED  BY <1>1 DEF Reads

-----------------------------------------------------------------------------
(* The invariant holds initially.                                           *)

LEMMA Initial == Init => Inv
<1> SUFFICES ASSUME Init PROVE Inv
  OBVIOUS
<1>1. TypeOK
  <2>1. row \in [Ids -> Row]  BY AnyTextIsText, Numbers DEF Init, Row
  <2>2. msg \in [Ids -> Message \cup {NoMessage}]  BY DEF Init
  <2>3. run \in [Senders -> Run] /\ cmd \in [Authors -> Cmd]  BY IdleTyped DEF Init
  <2>4. now \in Times /\ faults \in 0..MaxFaults  BY Numbers, NumbersAssumption DEF Init
  <2>5. /\ \A p \in Senders : run[p].pc \notin {"idle", "next"} => run[p].cur \in Ids
        /\ \A a \in Authors : cmd[a].pc # "idle" => cmd[a].id \in Ids
    BY DEF Init, IdleRun, IdleCmd
  <2>q. QED  BY <2>1, <2>2, <2>3, <2>4, <2>5 DEF Init, TypeOK
<1>2. \A i \in Ids : ~Posted(i) /\ row[i].status = "absent" /\ access[i] = "open"
  BY DEF Init, Posted, NoMessage
<1>3. \A p \in Senders, i \in Ids : ~Holds(p, i)
  BY DEF Init, IdleRun, Holds
<1>4. \A p \in Senders : Knows(p)
  BY <1>3 DEF Knows, KnowsList, Init, IdleRun
<1>5. \A a \in Authors : Reads(a)
  BY DEF Reads, Init, IdleCmd
<1>q. QED
  BY <1>1, <1>2, <1>3, <1>4, <1>5
  DEF Inv, Rows, Alone, SentIsAccountedFor, PostedAsWritten, NeverEarly

-----------------------------------------------------------------------------
(* The author's actions, and the channel's.                                 *)

LEMMA ScheduleKeeps == ASSUME Inv, NEW i \in Ids, Schedule(i) PROVE Inv'
<1> USE DEF Inv
<1>1. PICK t \in Texts, w \in Times :
        /\ row[i].status = "absent"
        /\ row' = [row EXCEPT ![i] = [status |-> "pending", text |-> t, at |-> w, error |-> FALSE]]
        /\ UNCHANGED <<now, access, msg, run, cmd, faults, lost, undone, moved>>
        /\ access[i] = "open"
  BY DEF Schedule, Writable
<1>2. TypeOK'
  <2>1. row' \in [Ids -> Row]  BY <1>1 DEF TypeOK, Row
  <2>q. QED  BY <2>1, <1>1 DEF TypeOK
<1>3. \A j \in Ids : j # i => row'[j] = row[j]  BY <1>1 DEF TypeOK
<1>4. row'[i].status = "pending"  BY <1>1 DEF TypeOK
<1>5. \A j \in Ids : Posted(j)' = Posted(j)  BY <1>1 DEF Posted
<1>6. \A q \in Senders : ~Holds(q, i)  BY <1>1 DEF Knows, KnowsRow
<1>7. \A q \in Senders : Quiet(q)
  BY <1>1, <1>3, <1>4, <1>5, <1>6 DEF Quiet
<1>8. (\A q \in Senders : Knows(q)') /\ Alone'
  BY <1>1, <1>7, NoneMoves
<1>9. \A a \in Authors : Reads(a)'
  <2> TAKE a \in Authors
  <2>1. \A j \in Ids : row[j].status # "absent" => row'[j] = row[j]  BY <1>1, <1>3
  <2>q. QED  BY <2>1, <1>1, ReadsKept
<1>10. Rows' /\ SentIsAccountedFor' /\ PostedAsWritten' /\ NeverEarly'
  <2>1. ~Posted(i)  BY <1>1 DEF Rows
  <2>2. Rows'  BY <1>1, <1>3, <1>4, <1>5, <2>1 DEF Rows
  <2>3. SentIsAccountedFor'
    <3>1. \A q \in Senders, j \in Ids : Holds(q, j)' = Holds(q, j)  BY <1>1 DEF Holds
    <3>q. QED  BY <1>1, <1>3, <1>4, <1>5, <3>1 DEF SentIsAccountedFor
  <2>4. PostedAsWritten'  BY <1>1, <1>3, <1>5, <2>1 DEF PostedAsWritten
  <2>5. NeverEarly'  BY <1>1, <1>5 DEF NeverEarly
  <2>q. QED  BY <2>2, <2>3, <2>4, <2>5
<1>q. QED  BY <1>2, <1>8, <1>9, <1>10

LEMMA RowsAlone ==
  ASSUME Inv, UNCHANGED <<row, msg, run, lost, undone, moved>>
  PROVE  /\ \A q \in Senders : Knows(q)'
         /\ Alone' /\ SentIsAccountedFor' /\ PostedAsWritten' /\ NeverEarly'
<1> USE DEF Inv
<1>1. \A j \in Ids : Posted(j)' = Posted(j)  BY DEF Posted
<1>2. \A q \in Senders, j \in Ids : Holds(q, j)' = Holds(q, j)  BY DEF Holds
<1>3. \A q \in Senders : Quiet(q)  BY <1>1, QuietRows
<1>4. (\A q \in Senders : Knows(q)') /\ Alone'  BY <1>3, NoneMoves
<1>5. SentIsAccountedFor'  BY <1>1, <1>2 DEF SentIsAccountedFor
<1>6. PostedAsWritten' /\ NeverEarly'  BY <1>1 DEF PostedAsWritten, NeverEarly
<1>q. QED  BY <1>4, <1>5, <1>6

LEMMA BeginEditKeeps ==
  ASSUME Inv, NEW a \in Authors, NEW i \in Ids, BeginEdit(a, i) PROVE Inv'
<1> USE DEF Inv
<1>1. PICK t \in Texts, w \in Times \cup {None} :
        /\ row[i].status = "pending"
        /\ EditedAt(i, w) \in Times
        /\ cmd' = [cmd EXCEPT ![a] = [pc |-> "edit", id |-> i, text |-> t, at |-> EditedAt(i, w),
                                      asked |-> w # None, passed |-> FALSE]]
        /\ UNCHANGED <<now, access, row, msg, run, faults, lost, undone, moved>>
  BY DEF BeginEdit, Editable
<1> DEFINE k == [pc |-> "edit", id |-> i, text |-> t, at |-> EditedAt(i, w),
                 asked |-> w # None, passed |-> FALSE]
<1>2. k \in Cmd
  <2>1. (w # None) \in BOOLEAN  OBVIOUS
  <2>2. EditedAt(i, w) \in Times  BY <1>1
  <2> HIDE DEF k
  <2>q. QED  BY <2>1, <2>2 DEF Cmd, k
<1>3. cmd' \in [Authors -> Cmd] /\ cmd'[a] = k /\ \A b \in Authors \ {a} : cmd'[b] = cmd[b]
  BY <1>1, <1>2 DEF TypeOK
<1>4. TypeOK'
  <2>1. \A b \in Authors : cmd'[b].pc # "idle" => cmd'[b].id \in Ids
    BY <1>3 DEF TypeOK
  <2>q. QED  BY <1>1, <1>3, <2>1 DEF TypeOK
<1>5. \A b \in Authors : Reads(b)'
  <2> TAKE b \in Authors
  <2>1. CASE b = a
    <3>1. EditedAt(i, w) = row[i].at \/ w # None  BY DEF EditedAt
    <3>2. k.id = i /\ k.at = EditedAt(i, w) /\ (k.asked <=> w # None)  OBVIOUS
    <3>q. QED  BY <2>1, <1>1, <1>3, <3>1, <3>2 DEF Reads
  <2>2. CASE b # a  BY <2>2, <1>1, <1>3, ReadsKept
  <2>q. QED  BY <2>1, <2>2
<1>6. Rows'  BY <1>1 DEF Rows, Posted
<1>q. QED  BY <1>1, <1>4, <1>5, <1>6, RowsAlone

LEMMA BeginCancelKeeps ==
  ASSUME Inv, NEW a \in Authors, NEW i \in Ids, BeginCancel(a, i) PROVE Inv'
<1> USE DEF Inv
<1>1. /\ cmd' = [cmd EXCEPT ![a] = [IdleCmd EXCEPT !.pc = "cancel", !.id = i]]
      /\ UNCHANGED <<now, access, row, msg, run, faults, lost, undone, moved>>
  BY DEF BeginCancel
<1> DEFINE k == [IdleCmd EXCEPT !.pc = "cancel", !.id = i]
<1>2. k \in Cmd /\ k.pc = "cancel" /\ k.id = i  BY AnyTextIsText, Numbers DEF IdleCmd, Cmd
<1>3. cmd' \in [Authors -> Cmd] /\ cmd'[a] = k /\ \A b \in Authors \ {a} : cmd'[b] = cmd[b]
  BY <1>1, <1>2 DEF TypeOK
<1>4. TypeOK'
  <2>1. \A b \in Authors : cmd'[b].pc # "idle" => cmd'[b].id \in Ids
    BY <1>2, <1>3 DEF TypeOK
  <2>q. QED  BY <1>1, <1>3, <2>1 DEF TypeOK
<1>5. \A b \in Authors : Reads(b)'
  <2> TAKE b \in Authors
  <2>1. CASE b = a  BY <2>1, <1>2, <1>3 DEF Reads
  <2>2. CASE b # a  BY <2>2, <1>1, <1>3, ReadsKept
  <2>q. QED  BY <2>1, <2>2
<1>6. Rows'  BY <1>1 DEF Rows, Posted
<1>q. QED  BY <1>1, <1>4, <1>5, <1>6, RowsAlone

LEMMA CancelKeeps == ASSUME Inv, NEW a \in Authors, Cancel(a) PROVE Inv'
<1> USE DEF Inv
<1> DEFINE i == cmd[a].id
<1>1. /\ row' = [row EXCEPT ![i].status = IF @ = "pending" THEN "cancelled" ELSE @]
      /\ cmd' = [cmd EXCEPT ![a] = IdleCmd]
      /\ UNCHANGED <<now, access, msg, run, faults, lost, undone, moved>>
      /\ i \in Ids
  BY DEF Cancel, TypeOK
<1> HIDE DEF i
<1>2. row' \in [Ids -> Row] /\ cmd' \in [Authors -> Cmd]
  BY <1>1, IdleTyped DEF TypeOK, Row
<1>3. \A j \in Ids : j # i => row'[j] = row[j]  BY <1>1 DEF TypeOK
<1>4. /\ row'[i].status = IF row[i].status = "pending" THEN "cancelled" ELSE row[i].status
      /\ row'[i].text = row[i].text /\ row'[i].at = row[i].at
      /\ row[i].status # "pending" => row'[i] = row[i]
  BY <1>1 DEF TypeOK, Row
<1>5. cmd'[a] = IdleCmd /\ \A b \in Authors \ {a} : cmd'[b] = cmd[b]  BY <1>1 DEF TypeOK
<1>6. TypeOK'
  <2>1. \A b \in Authors : cmd'[b].pc # "idle" => cmd'[b].id \in Ids
    BY <1>5 DEF TypeOK, IdleCmd
  <2>q. QED  BY <1>1, <1>2, <2>1 DEF TypeOK
<1>7. \A j \in Ids : Posted(j)' = Posted(j)  BY <1>1 DEF Posted
<1>8. \A q \in Senders : Quiet(q)
  <2> TAKE q \in Senders
  <2>1. Holds(q, i) => row[i].status # "pending"  BY <1>1 DEF Knows, KnowsRow
  <2>q. QED  BY <1>1, <1>3, <1>4, <1>7, <2>1 DEF Quiet
<1>9. (\A q \in Senders : Knows(q)') /\ Alone'  BY <1>1, <1>8, NoneMoves
<1>10. \A b \in Authors : Reads(b)'
  <2> TAKE b \in Authors
  <2>1. CASE b = a  BY <2>1, <1>5 DEF Reads, IdleCmd
  <2>2. CASE b # a  BY <2>2, <1>3, <1>4, <1>5, ReadsKept
  <2>q. QED  BY <2>1, <2>2
<1>11. Rows'  BY <1>1, <1>3, <1>4, <1>7 DEF Rows
<1>12. SentIsAccountedFor'
  <2>1. \A q \in Senders, j \in Ids : Holds(q, j)' = Holds(q, j)  BY <1>1 DEF Holds
  <2>q. QED  BY <1>1, <1>3, <1>4, <1>7, <2>1 DEF SentIsAccountedFor
<1>13. PostedAsWritten' /\ NeverEarly'
  BY <1>1, <1>3, <1>4, <1>7 DEF PostedAsWritten, NeverEarly
<1>q. QED  BY <1>6, <1>9, <1>10, <1>11, <1>12, <1>13

LEMMA EditKeeps == ASSUME Inv, NEW a \in Authors, Edit(a) PROVE Inv'
<1> USE DEF Inv
<1> DEFINE i == cmd[a].id
           over == Overtake(a, i)
<1>1. /\ i \in Ids /\ cmd[a] \in Cmd /\ cmd[a].pc = "edit"
      /\ UNCHANGED <<now, access, msg, run, faults, lost, undone>>
  BY DEF Edit, TypeOK
<1>2. /\ over \in [Authors -> Cmd]
      /\ \A b \in Authors : over[b] = cmd[b] \/ (b # a /\ over[b] = [cmd[b] EXCEPT !.passed = TRUE])
      /\ \A b \in Authors : b # a /\ cmd[b].pc = "edit" /\ cmd[b].id = i => over[b].passed
  BY DEF Overtake, TypeOK, Cmd
<1>3. /\ cmd' \in [Authors -> Cmd] /\ cmd'[a] = IdleCmd
      /\ \A b \in Authors \ {a} : cmd'[b] = cmd[b] \/ cmd'[b] = [cmd[b] EXCEPT !.passed = TRUE]
  <2>1. CASE Editable(i)
    <3>1. cmd' = [over EXCEPT ![a] = IdleCmd]  BY <2>1 DEF Edit
    <3>q. QED  BY <3>1, <1>2, IdleTyped
  <2>2. CASE ~Editable(i)
    <3>1. cmd' = [cmd EXCEPT ![a] = IdleCmd]  BY <2>2 DEF Edit
    <3>q. QED  BY <3>1, IdleTyped DEF TypeOK
  <2>q. QED  BY <2>1, <2>2
<1>4. /\ row' \in [Ids -> Row] /\ moved' \subseteq Ids /\ moved \subseteq moved'
      /\ \A j \in Ids : j # i => row'[j] = row[j]
      /\ row'[i].status = row[i].status
      /\ row[i].status # "pending" => row'[i] = row[i]
  <2>1. CASE Editable(i)
    <3>1. row' = [row EXCEPT ![i].text = cmd[a].text, ![i].at = cmd[a].at]  BY <2>1 DEF Edit
    <3>2. moved' = moved \cup {i} \/ moved' = moved  BY <2>1 DEF Edit
    <3>3. row[i].status = "pending"  BY <2>1 DEF Editable
    <3>4. row' \in [Ids -> Row]
      <4>1. cmd[a].text \in Texts /\ cmd[a].at \in Times /\ i \in Ids  BY <1>1 DEF Cmd
      <4>2. row \in [Ids -> Row]  BY DEF TypeOK
      <4> HIDE DEF i
      <4>3. row' = [row EXCEPT ![i] = [row[i] EXCEPT !.text = cmd[a].text, !.at = cmd[a].at]]
        BY <3>1, <4>1, <4>2
      <4>4. [row[i] EXCEPT !.text = cmd[a].text, !.at = cmd[a].at] \in Row
        BY <4>1, <4>2 DEF Row
      <4>q. QED  BY <4>2, <4>3, <4>4
    <3>q. QED  BY <3>1, <3>2, <3>3, <3>4, <1>1 DEF TypeOK, Row
  <2>2. CASE ~Editable(i)  BY <2>2 DEF Edit, TypeOK
  <2>q. QED  BY <2>1, <2>2
<1>5. row'[i].at = row[i].at \/ row[i].status = "pending"
  BY <1>4
<1>6. ASSUME row[i].status = "pending"
      PROVE  /\ \A q \in Senders : (\E e \in run[q].todo : e.id = i) => i \in moved'
             /\ \A b \in Authors : b # a /\ cmd[b].pc = "edit" /\ cmd[b].id = i => cmd'[b].passed
  <2>1. Editable(i)  BY <1>6 DEF Editable
  <2>2. moved' = IF \E p \in Senders, e \in Listed : e \in run[p].todo /\ e.id = i
                 THEN moved \cup {i} ELSE moved
    BY <2>1 DEF Edit
  <2>3. \A q \in Senders : run[q].todo \subseteq Listed  BY DEF TypeOK, Run
  <2>4. cmd' = [over EXCEPT ![a] = IdleCmd]  BY <2>1 DEF Edit
  <2> HIDE DEF over, i
  <2>5. \A b \in Authors : b # a => cmd'[b] = over[b]  BY <2>4, <1>2
  <2>6. ASSUME NEW q \in Senders, NEW e \in run[q].todo, e.id = i PROVE i \in moved'
    <3>1. e \in Listed  BY <2>3
    <3>q. QED  BY <2>2, <2>6, <3>1
  <2>q. QED  BY <2>5, <2>6, <1>2
<1> HIDE DEF i, over
<1>7. TypeOK'
  <2>1. \A b \in Authors : cmd'[b].pc # "idle" => cmd'[b].id \in Ids
    <3> TAKE b \in Authors
    <3>1. CASE b = a  BY <3>1, <1>3 DEF IdleCmd
    <3>2. CASE b # a
      <4>1. cmd[b] \in Cmd  BY DEF TypeOK
      <4>2. cmd'[b].pc = cmd[b].pc /\ cmd'[b].id = cmd[b].id  BY <4>1, <3>2, <1>3 DEF Cmd
      <4>q. QED  BY <4>2 DEF TypeOK
    <3>q. QED  BY <3>1, <3>2
  <2>q. QED  BY <1>1, <1>3, <1>4, <2>1 DEF TypeOK
<1>8. \A j \in Ids : Posted(j)' = Posted(j)  BY <1>1 DEF Posted
<1>9. \A q \in Senders : Quiet(q)
  <2> TAKE q \in Senders
  <2>1. Holds(q, i) => row[i].status # "pending"  BY <1>1 DEF Knows, KnowsRow
  <2>q. QED  BY <1>1, <1>4, <1>5, <1>6, <1>8, <2>1 DEF Quiet
<1>10. (\A q \in Senders : Knows(q)') /\ Alone'  BY <1>1, <1>9, NoneMoves
<1>11. \A b \in Authors : Reads(b)'
  <2> TAKE b \in Authors
  <2>1. CASE b = a  BY <2>1, <1>3 DEF Reads, IdleCmd
  <2>2. CASE b # a
    <3>1. cmd[b] \in Cmd  BY DEF TypeOK
    <3>2. /\ cmd'[b].pc = cmd[b].pc /\ cmd'[b].id = cmd[b].id /\ cmd'[b].asked = cmd[b].asked
          /\ cmd'[b].at = cmd[b].at /\ (cmd[b].passed => cmd'[b].passed)
      BY <3>1, <2>2, <1>3 DEF Cmd
    <3>3. cmd[b].pc = "edit" => cmd[b].id \in Ids  BY DEF TypeOK
    <3>4. Reads(b)  OBVIOUS
    <3>5. CASE cmd[b].id = i  BY <3>2, <3>3, <3>4, <3>5, <2>2, <1>4, <1>5, <1>6 DEF Reads
    <3>6. CASE cmd[b].id # i  BY <3>2, <3>3, <3>4, <3>6, <1>4 DEF Reads
    <3>q. QED  BY <3>5, <3>6
  <2>q. QED  BY <2>1, <2>2
<1>12. Rows'
  <2>1. \A j \in Ids : row'[j].status = row[j].status  BY <1>4
  <2>q. QED  BY <1>1, <1>8, <2>1 DEF Rows
<1>13. SentIsAccountedFor'
  <2>1. \A q \in Senders, j \in Ids : Holds(q, j)' = Holds(q, j)  BY <1>1 DEF Holds
  <2>2. \A j \in Ids : row'[j].status = row[j].status  BY <1>4
  <2>q. QED  BY <1>1, <1>8, <2>1, <2>2 DEF SentIsAccountedFor
<1>14. PostedAsWritten'
  <2>1. \A j \in Ids : row[j].status = "sent" => row'[j] = row[j]  BY <1>4
  <2>q. QED  BY <1>1, <1>8, <2>1 DEF PostedAsWritten
<1>15. NeverEarly'  BY <1>1, <1>4, <1>8 DEF NeverEarly
<1>q. QED  BY <1>7, <1>10, <1>11, <1>12, <1>13, <1>14, <1>15

LEMMA ChangeAccessKeeps == ASSUME Inv, NEW i \in Ids, ChangeAccess(i) PROVE Inv'
<1> USE DEF Inv
<1>1. /\ access' \in [Ids -> {"open", "shut", "gone"}]
      /\ \A j \in Ids : access'[j] = "gone" <=> access[j] = "gone"
      /\ UNCHANGED <<now, row, msg, run, cmd, faults, lost, undone, moved>>
  BY DEF ChangeAccess, TypeOK
<1>2. TypeOK'  BY <1>1 DEF TypeOK
<1>3. \A a \in Authors : Reads(a)'  BY <1>1 DEF Reads
<1>4. Rows'  BY <1>1 DEF Rows, Posted
<1>q. QED  BY <1>1, <1>2, <1>3, <1>4, RowsAlone

LEMMA DeleteChannelKeeps == ASSUME Inv, NEW i \in Ids, DeleteChannel(i) PROVE Inv'
<1> USE DEF Inv
<1>1. /\ access' = [access EXCEPT ![i] = "gone"]
      /\ row' = [row EXCEPT ![i].status = IF @ = "absent" THEN "absent" ELSE "deleted"]
      /\ msg' = [msg EXCEPT ![i] = NoMessage]
      /\ UNCHANGED <<now, run, cmd, faults, lost, undone, moved>>
  BY DEF DeleteChannel
<1>2. /\ access' \in [Ids -> {"open", "shut", "gone"}] /\ row' \in [Ids -> Row]
      /\ msg' \in [Ids -> Message \cup {NoMessage}]
  <2>1. row' \in [Ids -> Row]  BY <1>1 DEF TypeOK, Row
  <2>2. msg' \in [Ids -> Message \cup {NoMessage}]  BY <1>1 DEF TypeOK
  <2>q. QED  BY <1>1, <2>1, <2>2 DEF TypeOK
<1>3. \A j \in Ids \ {i} : row'[j] = row[j] /\ msg'[j] = msg[j] /\ access'[j] = access[j]
  BY <1>1 DEF TypeOK
<1>4. /\ access'[i] = "gone" /\ msg'[i] = NoMessage
      /\ row'[i].status = IF row[i].status = "absent" THEN "absent" ELSE "deleted"
      /\ row'[i].at = row[i].at
  BY <1>1 DEF TypeOK, Row
<1>5. ~Posted(i)' /\ \A j \in Ids \ {i} : Posted(j)' = Posted(j)
  BY <1>3, <1>4 DEF Posted, NoMessage
<1>6. TypeOK'  BY <1>1, <1>2 DEF TypeOK
<1>7. \A q \in Senders : Quiet(q)
  <2> TAKE q \in Senders
  <2>1. Holds(q, i) => row[i].status # "absent"  BY DEF Knows, KnowsRow
  <2>q. QED  BY <1>1, <1>3, <1>4, <1>5, <2>1 DEF Quiet
<1>8. (\A q \in Senders : Knows(q)') /\ Alone'  BY <1>1, <1>7, NoneMoves
<1>9. \A a \in Authors : Reads(a)'
  <2> TAKE a \in Authors
  <2>1. \A j \in Ids : row'[j].at = row[j].at /\ (row[j].status # "absent" => row'[j].status # "absent")
    BY <1>3, <1>4
  <2>q. QED  BY <2>1, <1>1, ReadsKept
<1>10. Rows'  BY <1>3, <1>4, <1>5 DEF Rows
<1>11. SentIsAccountedFor'
  <2>1. \A q \in Senders, j \in Ids : Holds(q, j)' = Holds(q, j)  BY <1>1 DEF Holds
  <2>q. QED  BY <1>1, <1>3, <1>4, <1>5, <2>1 DEF SentIsAccountedFor
<1>12. PostedAsWritten'  BY <1>1, <1>3, <1>5 DEF PostedAsWritten
<1>13. NeverEarly'  BY <1>1, <1>3, <1>5 DEF NeverEarly
<1>q. QED  BY <1>6, <1>8, <1>9, <1>10, <1>11, <1>12, <1>13

LEMMA TickKeeps == ASSUME Inv, Tick PROVE Inv'
<1> USE DEF Inv
<1>1. /\ now < MaxTime /\ now' = now + 1
      /\ UNCHANGED <<access, row, msg, run, cmd, faults, lost, undone, moved>>
  BY DEF Tick
<1>2. now' \in Times  BY <1>1, NumbersAssumption DEF TypeOK, Times
<1>3. TypeOK'  BY <1>1, <1>2 DEF TypeOK
<1>4. \A a \in Authors : Reads(a)'  BY <1>1 DEF Reads
<1>5. Rows'  BY <1>1 DEF Rows, Posted
<1>q. QED  BY <1>1, <1>3, <1>4, <1>5, RowsAlone

-----------------------------------------------------------------------------
(* The run.                                                                 *)

(* A step of one run that changes no row, no message and no history. *)
LEMMA RunMoves ==
  ASSUME Inv, NEW p \in Senders, NEW r \in Run, Set(p, r),
         UNCHANGED <<now, access, row, msg, cmd, undone, moved>>,
         lost' \subseteq Ids, lost \subseteq lost', faults' \in 0..MaxFaults,
         r.pc \in Working => r.cur \in Ids /\ Holds(p, r.cur),
         \A i \in Ids : Holds(p, i) => row[i].status # "sent" \/ Posted(i)
                                       \/ i \in lost' \/ (r.pc \in Working /\ r.cur = i),
         Knows(p)'
  PROVE  Inv'
<1> USE DEF Inv
<1>1. \A j \in Ids : Posted(j)' = Posted(j)  BY DEF Posted
<1>2. \A q \in Senders \ {p} : Quiet(q)  BY <1>1, QuietRows
<1>3. /\ run' \in [Senders -> Run] /\ run'[p] = r
      /\ \A q \in Senders \ {p} : run'[q] = run[q]
      /\ \A q \in Senders : Knows(q)'
  BY <1>2, OneMoves
<1>4. TypeOK'
  <2>1. \A q \in Senders : run'[q].pc \notin {"idle", "next"} => run'[q].cur \in Ids
    <3> TAKE q \in Senders
    <3>1. CASE q = p  BY <3>1, <1>3 DEF Working, Run
    <3>2. CASE q # p  BY <3>2, <1>3 DEF TypeOK
    <3>q. QED  BY <3>1, <3>2
  <2>q. QED  BY <1>3, <2>1 DEF TypeOK
<1>5. \A i \in Ids : Holds(p, i)' => Holds(p, i)
  BY <1>3 DEF Holds, Working
<1>6. Alone'  BY <1>3, <1>5, AloneKept
<1>7. \A a \in Authors : Reads(a)'  BY DEF Reads
<1>8. Rows'  BY <1>1 DEF Rows
<1>9. SentIsAccountedFor'
  <2>1. ASSUME NEW i \in Ids, row[i].status = "sent", ~Posted(i), i \notin lost'
        PROVE  \E q \in Senders : Holds(q, i)'
    <3>1. PICK q \in Senders : Holds(q, i)  BY <2>1 DEF SentIsAccountedFor
    <3>2. CASE q = p
      <4>1. r.pc \in Working /\ r.cur = i  BY <2>1, <3>1, <3>2
      <4>2. Holds(p, i)'  BY <4>1, <1>3 DEF Holds, Working
      <4>q. QED  BY <4>2
    <3>3. CASE q # p
      <4>1. Holds(q, i)'  BY <3>1, <3>3, <1>3 DEF Holds
      <4>q. QED  BY <4>1
    <3>q. QED  BY <3>2, <3>3
  <2>q. QED  BY <2>1, <1>1 DEF SentIsAccountedFor
<1>10. PostedAsWritten' /\ NeverEarly'  BY <1>1 DEF PostedAsWritten, NeverEarly
<1>q. QED  BY <1>3, <1>4, <1>6, <1>7, <1>8, <1>9, <1>10

(* A run with a list of intents it may have, and none in its hands. *)
LEMMA ListingKnows ==
  ASSUME NEW p \in Senders, NEW todo \in SUBSET Listed, NEW t \in Times,
         run'[p] = Listing(todo, t),
         \A e \in todo : row'[e.id].status # "absent" /\ (row'[e.id].at <= t \/ e.id \in moved')
  PROVE  Knows(p)' /\ \A i \in Ids : ~Holds(p, i)'
<1>1. /\ run'[p].pc \in {"idle", "next"} /\ run'[p].todo = todo
      /\ run'[p].as = t \/ todo = {}
  BY ListingTyped
<1>2. KnowsList(p)'  BY <1>1 DEF KnowsList
<1>3. \A i \in Ids : ~Holds(p, i)'  BY <1>1 DEF Holds
<1>q. QED  BY <1>2, <1>3 DEF Knows

LEMMA RunFacts ==
  ASSUME Inv, NEW p \in Senders
  PROVE  /\ run[p] \in Run /\ run[p].todo \subseteq Listed /\ run[p].as \in Times
         /\ run[p].pc \in Working => run[p].cur \in Ids /\ Holds(p, run[p].cur)
         /\ \A i \in Ids : Holds(p, i) => i = run[p].cur /\ run[p].pc \in Working
         /\ \A e \in run[p].todo :
               e.id \in Ids /\ row[e.id].status # "absent"
                 /\ (row[e.id].at <= run[p].as \/ e.id \in moved)
<1>1. run[p] \in Run  BY DEF Inv, TypeOK
<1>2. run[p].pc \in Working => run[p].cur \in Ids  BY DEF Inv, TypeOK, Working
<1>3. \A e \in run[p].todo : e.id \in Ids  BY <1>1 DEF Run, Listed
<1>4. KnowsList(p)  BY DEF Inv, Knows
<1>q. QED  BY <1>1, <1>2, <1>3, <1>4 DEF Run, Holds, Working, KnowsList

(* Continue, from a step that keeps what the list relies on. *)
LEMMA ContinueMoves ==
  ASSUME Inv, NEW p \in Senders, NEW todo, todo \subseteq run[p].todo, Continue(p, todo),
         UNCHANGED <<now, access, row, msg, cmd, undone, moved>>,
         lost' \subseteq Ids, lost \subseteq lost', faults' \in 0..MaxFaults,
         \A i \in Ids : Holds(p, i) => row[i].status # "sent" \/ Posted(i) \/ i \in lost'
  PROVE  Inv'
<1> DEFINE r == Listing(todo, run[p].as)
<1>1. todo \in SUBSET Listed /\ run[p].as \in Times  BY RunFacts
<1>2. r \in Run /\ r.pc \in {"idle", "next"}  BY <1>1, ListingTyped
<1>3. Set(p, r)  BY DEF Continue
<1>4. run'[p] = r  BY <1>3 DEF Set, Inv, TypeOK
<1>5. Knows(p)'
  <2>1. \A e \in todo : row'[e.id].status # "absent" /\ (row'[e.id].at <= run[p].as \/ e.id \in moved')
    BY RunFacts
  <2> HIDE DEF r
  <2>q. QED  BY <1>1, <1>4, <2>1, ListingKnows DEF r
<1> HIDE DEF r
<1>q. QED  BY <1>2, <1>3, <1>5, RunMoves DEF Working

LEMMA SelectKeeps == ASSUME Inv, NEW p \in Senders, Select(p) PROVE Inv'
<1> USE DEF Inv
<1>1. PICK t \in Times :
        /\ run[p].pc = "idle"
        /\ Set(p, Listing(Batch(t), t))
        /\ UNCHANGED <<now, access, row, msg, cmd, faults, lost, undone, moved>>
  BY AskedAssumption DEF Select, TypeOK, Times
<1>2. /\ Batch(t) \in SUBSET Listed
      /\ \A e \in Batch(t) : row[e.id].status # "absent" /\ row[e.id].at <= t
  <2>1. ASSUME NEW e \in Batch(t)
        PROVE  e \in Listed /\ row[e.id].status # "absent" /\ row[e.id].at <= t
    <3>1. e \in DueList(t)  BY DEF Batch
    <3>2. PICK j \in Ids : Due(j, t) /\ e = [id |-> j, at |-> row[j].at]  BY <3>1 DEF DueList
    <3>3. row[j].at \in Times  BY DEF TypeOK, Row
    <3>q. QED  BY <3>2, <3>3 DEF Due, Listed
  <2>q. QED  BY <2>1
<1>3. Listing(Batch(t), t) \in Run /\ Listing(Batch(t), t).pc \in {"idle", "next"}
  BY <1>2, ListingTyped
<1>4. run'[p] = Listing(Batch(t), t)  BY <1>1 DEF Set, TypeOK
<1>5. Knows(p)'
  BY <1>1, <1>2, <1>4, ListingKnows
<1>6. \A i \in Ids : ~Holds(p, i)  BY <1>1 DEF Holds
<1>7. lost' \subseteq Ids /\ lost \subseteq lost' /\ faults' \in 0..MaxFaults
  BY <1>1 DEF TypeOK
<1>q. QED  BY <1>1, <1>3, <1>5, <1>6, <1>7, RunMoves DEF Working

LEMMA LeaseKeeps == ASSUME Inv, NEW p \in Senders, Lease(p) PROVE Inv'
<1> USE DEF Inv
<1>1. PICK e \in run[p].todo :
        /\ run[p].pc = "next"
        /\ IF Leasable(e.id)
           THEN /\ row' = [row EXCEPT ![e.id].status = "sent", ![e.id].error = FALSE]
                /\ Set(p, [run[p] EXCEPT !.pc = "read", !.cur = e.id, !.todo = @ \ {e}])
           ELSE /\ Continue(p, run[p].todo \ {e})
                /\ UNCHANGED row
        /\ UNCHANGED <<now, access, msg, cmd, faults, lost, undone, moved>>
  BY DEF Lease
<1> DEFINE i == e.id
<1>2. i \in Ids /\ \A j \in Ids : ~Holds(p, j)  BY <1>1, RunFacts DEF Working
<1>3. CASE ~Leasable(i)
  <2>1. lost' \subseteq Ids /\ lost \subseteq lost' /\ faults' \in 0..MaxFaults
    BY <1>1 DEF TypeOK
  <2>q. QED  BY <1>1, <1>2, <1>3, <2>1, ContinueMoves
<1>4. CASE Leasable(i)
  <2> DEFINE r == [run[p] EXCEPT !.pc = "read", !.cur = i, !.todo = @ \ {e}]
  <2>1. /\ r \in Run /\ r.pc = "read" /\ r.cur = i /\ r.todo \subseteq run[p].todo
        /\ r.as = run[p].as
    BY <1>2, RunFacts DEF Run
  <2>2. Set(p, r)  BY <1>1, <1>4
  <2>3. row[i].status = "pending"  BY <1>4 DEF Leasable
  <2>4. row' = [row EXCEPT ![i].status = "sent", ![i].error = FALSE]  BY <1>1, <1>4
  <2>e. e \in run[p].todo  OBVIOUS
  <2> HIDE DEF r
  <2>5. row' \in [Ids -> Row]  BY <1>2, <2>4 DEF TypeOK, Row
  <2>6. /\ \A j \in Ids \ {i} : row'[j] = row[j]
        /\ row'[i].status = "sent" /\ row'[i].text = row[i].text /\ row'[i].at = row[i].at
    BY <1>2, <2>4 DEF TypeOK, Row
  <2>7. \A j \in Ids : Posted(j)' = Posted(j)  BY <1>1 DEF Posted
  <2>8. \A q \in Senders : ~Holds(q, i)  BY <1>2, <2>3 DEF Knows, KnowsRow
  <2>9. \A q \in Senders \ {p} : Quiet(q)
    BY <1>1, <1>2, <2>6, <2>7, <2>8 DEF Quiet
  <2>10. run'[p] = r  BY <2>2 DEF Set, TypeOK
  <2>11. Knows(p)'
    <3>1. KnowsList(p)'
      <4>1. \A f \in run[p].todo : /\ f.id \in Ids /\ row[f.id].status # "absent"
                                   /\ row[f.id].at <= run[p].as \/ f.id \in moved
        BY RunFacts
      <4>2. \A j \in Ids : row'[j].at = row[j].at /\ (row[j].status # "absent" => row'[j].status # "absent")
        BY <2>6
      <4>q. QED  BY <4>1, <4>2, <2>10, <2>1, <1>1 DEF KnowsList
    <3>2. row[i].at <= run[p].as \/ i \in moved  BY <2>e, RunFacts
    <3>3. \A j \in Ids : Holds(p, j)' => j = i  BY <2>10, <2>1 DEF Holds
    <3>4. Posted(i) => i \in undone  BY <1>2, <2>3 DEF PostedAsWritten
    <3>5. KnowsRow(p, i)'
      <4>1. run'[p].pc = "read" /\ run'[p].as = run[p].as  BY <2>1, <2>10
      <4>2. row'[i].at <= run'[p].as \/ i \in moved'  BY <3>2, <2>6, <4>1, <1>1
      <4>3. ~Posted(i)' \/ i \in undone'  BY <3>4, <2>7, <1>1, <1>2
      <4>q. QED  BY <4>1, <4>2, <4>3, <2>6 DEF KnowsRow
    <3>q. QED  BY <3>1, <3>3, <3>5 DEF Knows
  <2>12. /\ run' \in [Senders -> Run]
         /\ \A q \in Senders \ {p} : run'[q] = run[q]
         /\ \A q \in Senders : Knows(q)'
    BY <2>1, <2>2, <2>9, <2>11, OneMoves
  <2>13. TypeOK'
    <3>1. \A q \in Senders : run'[q].pc \notin {"idle", "next"} => run'[q].cur \in Ids
      BY <2>10, <2>12, <2>1, <1>2 DEF TypeOK
    <3>q. QED  BY <1>1, <2>5, <2>12, <3>1 DEF TypeOK
  <2>14. Alone'
    <3>1. \A q \in Senders, j \in Ids : Holds(q, j)' =>
             IF q = p THEN j = i ELSE Holds(q, j)
      BY <2>1, <2>10, <2>12 DEF Holds
    <3>q. QED  BY <3>1, <2>8 DEF Alone
  <2>15. \A a \in Authors : Reads(a)'
    <3> TAKE a \in Authors
    <3>1. \A j \in Ids : row'[j].at = row[j].at /\ (row[j].status # "absent" => row'[j].status # "absent")
      BY <2>6
    <3>q. QED  BY <3>1, <1>1, ReadsKept
  <2>16. Rows'
    <3>1. access[i] # "gone"  BY <1>2, <2>3 DEF Rows
    <3>q. QED  BY <3>1, <1>1, <2>6, <2>7 DEF Rows
  <2>17. SentIsAccountedFor'
    <3>1. ASSUME NEW j \in Ids, row'[j].status = "sent", ~Posted(j), j \notin lost
          PROVE  \E q \in Senders : Holds(q, j)'
      <4>1. CASE j = i
        <5>1. Holds(p, i)'  BY <2>1, <2>10 DEF Holds
        <5>q. QED  BY <4>1, <5>1
      <4>2. CASE j # i
        <5>1. PICK q \in Senders : Holds(q, j)  BY <3>1, <4>2, <2>6 DEF SentIsAccountedFor
        <5>2. q # p  BY <5>1, <1>2
        <5>3. Holds(q, j)'  BY <5>1, <5>2, <2>12 DEF Holds
        <5>q. QED  BY <5>3
      <4>q. QED  BY <4>1, <4>2
    <3>q. QED  BY <3>1, <2>7, <1>1 DEF SentIsAccountedFor
  <2>18. PostedAsWritten'
    <3>1. ~Posted(i) \/ i \in undone  BY <1>2, <2>3 DEF PostedAsWritten
    <3>q. QED  BY <3>1, <1>1, <2>6, <2>7 DEF PostedAsWritten
  <2>19. NeverEarly'  BY <1>1, <2>7 DEF NeverEarly
  <2>q. QED  BY <2>12, <2>13, <2>14, <2>15, <2>16, <2>17, <2>18, <2>19
<1>q. QED  BY <1>3, <1>4

(* The step to another statement about the same intent. *)
LEMMA GotoMoves ==
  ASSUME Inv, NEW p \in Senders, run[p].pc \in Working, NEW r \in Run, Set(p, r),
         r.pc \in Working, r.cur = run[p].cur, r.todo = run[p].todo, r.as = run[p].as,
         UNCHANGED <<now, access, row, msg, cmd, lost, undone, moved>>, faults' \in 0..MaxFaults,
         NEW i \in Ids, i = run[p].cur, KnowsRow(p, i)'
  PROVE  Inv'
<1>1. run'[p] = r  BY DEF Set, Inv, TypeOK
<1>2. KnowsList(p)'
  BY <1>1, RunFacts DEF KnowsList
<1>3. \A j \in Ids : Holds(p, j)' => j = i  BY <1>1 DEF Holds
<1>4. Knows(p)'  BY <1>2, <1>3 DEF Knows
<1>5. r.cur \in Ids /\ Holds(p, r.cur) /\ \A j \in Ids : Holds(p, j) => j = r.cur
  BY RunFacts
<1>6. lost' \subseteq Ids /\ lost \subseteq lost'  BY DEF Inv, TypeOK
<1>q. QED  BY <1>4, <1>5, <1>6, RunMoves

LEMMA HeldFacts ==
  ASSUME Inv, NEW p \in Senders, run[p].pc \in Working
  PROVE  KnowsRow(p, run[p].cur) /\ run[p].cur \in Ids /\ Holds(p, run[p].cur)
BY RunFacts DEF Inv, Knows

LEMMA FaultsTyped == Inv => lost \subseteq Ids /\ faults \in 0..MaxFaults
BY DEF Inv, TypeOK

LEMMA RereadKeeps == ASSUME Inv, NEW p \in Senders, Reread(p) PROVE Inv'
<1>0. PICK i \in Ids : i = run[p].cur
  BY HeldFacts DEF Reread, Working
<1>1. run[p].pc = "read" /\ UNCHANGED <<now, access, row, msg, cmd, faults, lost, undone, moved>>
  BY DEF Reread
<1>2. run[p].pc \in Working  BY <1>1 DEF Working
<1>3. KnowsRow(p, i)  BY <1>0, <1>2, HeldFacts
<1>4. CASE row[i].status = "deleted"
  <2>1. Continue(p, run[p].todo)  BY <1>0, <1>4 DEF Reread, AfterFailure
  <2>2. \A j \in Ids : Holds(p, j) => j = i  BY <1>0, RunFacts
  <2>q. QED  BY <1>1, <1>4, <2>1, <2>2, FaultsTyped, ContinueMoves
<1>5. CASE row[i].status # "deleted"
  <2> DEFINE r == [run[p] EXCEPT !.pc = "guard", !.text = row[i].text, !.at = row[i].at]
  <2>1. Set(p, r)  BY <1>0, <1>5 DEF Reread
  <2>2. row[i] \in Row  BY Typed DEF Inv
  <2>3. /\ r \in Run /\ r.pc = "guard" /\ r.cur = run[p].cur /\ r.todo = run[p].todo
        /\ r.as = run[p].as /\ r.text = row[i].text /\ r.at = row[i].at
    BY <2>2, RunFacts DEF Run, Row
  <2> HIDE DEF r
  <2>4. run'[p] = r  BY <2>1 DEF Set, Inv, TypeOK
  <2>5. KnowsRow(p, i)'
    <3>1. row[i].at \in Nat /\ run[p].as \in Nat  BY <2>2, Numbers, RunFacts DEF Row
    <3>2. row[i].status = "sent" /\ (row[i].at <= run[p].as \/ i \in moved)
          /\ (~Posted(i) \/ i \in undone)
      BY <1>1, <1>3, <1>5 DEF KnowsRow
    <3>3. Posted(i)' = Posted(i)  BY <1>1 DEF Posted
    <3>q. QED  BY <1>1, <2>3, <2>4, <3>2, <3>3 DEF KnowsRow
  <2>q. QED  BY <1>0, <1>1, <1>2, <2>1, <2>3, <2>5, FaultsTyped, GotoMoves DEF Working
<1>q. QED  BY <1>4, <1>5

(* Goto, which leaves the copy of the row alone *)
LEMMA GotoTyped ==
  ASSUME Inv, NEW p \in Senders, run[p].pc \in Working,
         NEW l \in {"insert", "follow", "release"}, Goto(p, l)
  PROVE  \E r \in Run :
           /\ Set(p, r) /\ run'[p] = r /\ r.pc = l /\ r.cur = run[p].cur /\ r.todo = run[p].todo
           /\ r.as = run[p].as /\ r.text = run[p].text /\ r.at = run[p].at
<1> DEFINE r == [run[p] EXCEPT !.pc = l]
<1>1. Set(p, r)  BY DEF Goto
<1>2. /\ r \in Run /\ r.pc = l /\ r.cur = run[p].cur /\ r.todo = run[p].todo
      /\ r.as = run[p].as /\ r.text = run[p].text /\ r.at = run[p].at
  BY RunFacts DEF Run
<1> HIDE DEF r
<1>3. run'[p] = r  BY <1>1 DEF Set, Inv, TypeOK
<1>q. QED  BY <1>1, <1>2, <1>3

LEMMA GotoKeeps ==
  ASSUME Inv, NEW p \in Senders, run[p].pc \in Working,
         NEW l \in {"insert", "release"}, Goto(p, l),
         UNCHANGED <<now, access, row, msg, cmd, lost, undone, moved>>, faults' \in 0..MaxFaults,
         l = "insert" => run[p].pc = "guard"
  PROVE  Inv'
<1>1. PICK r \in Run :
           /\ Set(p, r) /\ run'[p] = r /\ r.pc = l /\ r.cur = run[p].cur /\ r.todo = run[p].todo
           /\ r.as = run[p].as /\ r.text = run[p].text /\ r.at = run[p].at
  BY GotoTyped
<1>0. PICK i \in Ids : i = run[p].cur  BY HeldFacts
<1>2. KnowsRow(p, i)  BY <1>0, HeldFacts
<1>3. Posted(i)' = Posted(i)  BY DEF Posted
<1>4. KnowsRow(p, i)'  BY <1>1, <1>2, <1>3 DEF KnowsRow
<1>q. QED  BY <1>0, <1>1, <1>4, GotoMoves DEF Working

LEMMA GuardKeeps == ASSUME Inv, NEW p \in Senders, Guard(p) PROVE Inv'
BY FaultsTyped, GotoKeeps DEF Guard, Working

LEMMA FollowKeeps == ASSUME Inv, NEW p \in Senders, Follow(p) PROVE Inv'
<1>1. run[p].pc = "follow" /\ UNCHANGED <<now, access, row, msg, cmd, faults, lost, undone, moved>>
  BY DEF Follow
<1>2. run[p].pc \in Working  BY <1>1 DEF Working
<1>3. CASE Goto(p, "release")  BY <1>1, <1>2, <1>3, FaultsTyped, GotoKeeps
<1>4. CASE Continue(p, run[p].todo)
  <2>1. \A j \in Ids : Holds(p, j) => row[j].status # "sent" \/ Posted(j)
    BY <1>1, <1>2, HeldFacts, RunFacts DEF KnowsRow
  <2>q. QED  BY <1>1, <1>4, <2>1, FaultsTyped, ContinueMoves
<1>q. QED  BY <1>3, <1>4 DEF Follow

LEMMA InsertKeeps == ASSUME Inv, NEW p \in Senders, Insert(p) PROVE Inv'
<1> USE DEF Inv
<1>1. run[p].pc = "insert" /\ UNCHANGED <<now, access, row, cmd, faults, lost, undone, moved>>
  BY DEF Insert
<1>2. run[p].pc \in Working  BY <1>1 DEF Working
<1>3. PICK i \in Ids : i = run[p].cur  BY <1>2, HeldFacts
<1>4. KnowsRow(p, i) /\ Holds(p, i)  BY <1>2, <1>3, HeldFacts
<1>5. CASE Posted(i) \/ access[i] = "gone"
  <2>1. Goto(p, "release") /\ UNCHANGED msg  BY <1>3, <1>5 DEF Insert
  <2>q. QED  BY <1>1, <1>2, <2>1, FaultsTyped, GotoKeeps
<1>6. CASE ~(Posted(i) \/ access[i] = "gone")
  <2> DEFINE m == [posted |-> TRUE, text |-> run[p].text, at |-> run[p].at, as |-> run[p].as]
  <2>1. msg' = [msg EXCEPT ![i] = m] /\ Goto(p, "follow")  BY <1>3, <1>6 DEF Insert
  <2>2. m \in Message  BY RunFacts DEF Run, Message
  <2>3. m.posted = TRUE /\ m.text = run[p].text /\ m.at = run[p].at /\ m.as = run[p].as
    OBVIOUS
  <2> HIDE DEF m
  <2>4. /\ msg' \in [Ids -> Message \cup {NoMessage}] /\ msg'[i] = m
        /\ \A j \in Ids \ {i} : msg'[j] = msg[j]
    BY <2>1, <2>2 DEF TypeOK
  <2>5. Posted(i)' /\ \A j \in Ids \ {i} : Posted(j)' = Posted(j)
    BY <2>3, <2>4 DEF Posted
  <2>6. PICK r \in Run :
           /\ Set(p, r) /\ run'[p] = r /\ r.pc = "follow" /\ r.cur = run[p].cur
           /\ r.todo = run[p].todo /\ r.as = run[p].as
    BY <2>1, <1>2, GotoTyped
  <2>7. \A q \in Senders \ {p} : Quiet(q)
    <3>1. \A q \in Senders \ {p} : ~Holds(q, i)  BY <1>4 DEF Alone
    <3>q. QED  BY <3>1, <1>1, <2>5 DEF Quiet
  <2>8. row[i].status = "sent"  BY <1>4, <1>6 DEF KnowsRow, Rows
  <2>9. Knows(p)'
    <3>1. KnowsList(p)'  BY <2>6, <1>1, RunFacts DEF KnowsList
    <3>2. \A j \in Ids : Holds(p, j)' => j = i  BY <2>6, <1>3 DEF Holds
    <3>3. KnowsRow(p, i)'
      <4>1. run'[p].pc = "follow"  BY <2>6
      <4>q. QED  BY <4>1, <2>5, <2>8, <1>1 DEF KnowsRow
    <3>q. QED  BY <3>1, <3>2, <3>3 DEF Knows
  <2>10. /\ run' \in [Senders -> Run]
         /\ \A q \in Senders \ {p} : run'[q] = run[q]
         /\ \A q \in Senders : Knows(q)'
    BY <2>6, <2>7, <2>9, OneMoves
  <2>11. TypeOK'
    <3>1. \A q \in Senders : run'[q].pc \notin {"idle", "next"} => run'[q].cur \in Ids
      BY <2>6, <2>10, <1>3 DEF TypeOK
    <3>q. QED  BY <1>1, <2>4, <2>10, <3>1 DEF TypeOK
  <2>12. \A j \in Ids : Holds(p, j)' <=> Holds(p, j)
    BY <2>6, <1>1 DEF Holds
  <2>13. Alone'  BY <2>10, <2>12, AloneKept
  <2>14. \A a \in Authors : Reads(a)'  BY <1>1 DEF Reads
  <2>15. Rows'  BY <1>1, <1>6, <2>5, <2>8 DEF Rows
  <2>16. SentIsAccountedFor'
    <3>1. \A q \in Senders, j \in Ids : Holds(q, j)' <=> Holds(q, j)
      BY <2>10, <2>12 DEF Holds
    <3>q. QED  BY <3>1, <1>1, <2>5 DEF SentIsAccountedFor
  <2>17. PostedAsWritten'
    <3>1. row[i].text = m.text /\ row[i].at = m.at  BY <1>1, <1>4, <2>3, <2>8 DEF KnowsRow
    <3>q. QED  BY <3>1, <1>1, <2>4, <2>5, <2>8 DEF PostedAsWritten
  <2>18. NeverEarly'
    <3>1. m.at <= m.as \/ i \in moved  BY <1>1, <1>4, <2>3 DEF KnowsRow
    <3>q. QED  BY <3>1, <1>1, <2>4, <2>5 DEF NeverEarly
  <2>q. QED  BY <2>10, <2>11, <2>13, <2>14, <2>15, <2>16, <2>17, <2>18
<1>q. QED  BY <1>5, <1>6

LEMMA ReleaseKeeps == ASSUME Inv, NEW p \in Senders, Release(p) PROVE Inv'
<1> USE DEF Inv
<1>1. run[p].pc = "release" /\ UNCHANGED <<now, access, msg, cmd, faults, lost, moved>>
  BY DEF Release
<1>2. PICK i \in Ids : i = run[p].cur  BY <1>1, HeldFacts DEF Working
<1>3. /\ row' = IF row[i].status = "deleted" THEN row
                 ELSE [row EXCEPT ![i].status = "pending", ![i].error = TRUE]
      /\ undone' = IF Posted(i) THEN undone \cup {i} ELSE undone
      /\ Continue(p, run[p].todo)
  BY <1>2 DEF Release, AfterFailure, Released
<1>4. KnowsRow(p, i) /\ Holds(p, i)  BY <1>1, <1>2, HeldFacts DEF Working
<1>5. row' \in [Ids -> Row] /\ undone' \subseteq Ids /\ undone \subseteq undone'
  BY <1>3 DEF TypeOK, Row
<1>6. /\ \A j \in Ids \ {i} : row'[j] = row[j]
      /\ row'[i].text = row[i].text /\ row'[i].at = row[i].at
      /\ row'[i].status = IF row[i].status = "deleted" THEN "deleted" ELSE "pending"
  BY <1>3 DEF TypeOK, Row
<1>7. \A j \in Ids : Posted(j)' = Posted(j)  BY <1>1 DEF Posted
<1>8. Posted(i) => i \in undone'  BY <1>3
<1>9. \A j \in Ids : row[j].status # "absent" => row'[j].status # "absent"
  BY <1>6
<1>10. \A q \in Senders \ {p} : Quiet(q)
  <2>1. \A q \in Senders \ {p} : ~Holds(q, i)  BY <1>4 DEF Alone
  <2>q. QED  BY <2>1, <1>1, <1>5, <1>6, <1>7, <1>9 DEF Quiet
<1> DEFINE r == Listing(run[p].todo, run[p].as)
<1>11. r \in Run /\ r.pc \in {"idle", "next"} /\ Set(p, r)
  BY <1>3, RunFacts, ListingTyped DEF Continue
<1>12. run'[p] = r  BY <1>11 DEF Set, TypeOK
<1>13. Knows(p)' /\ \A j \in Ids : ~Holds(p, j)'
  <2>1. \A e \in run[p].todo : row'[e.id].status # "absent"
                                /\ (row'[e.id].at <= run[p].as \/ e.id \in moved')
    <3>1. \A j \in Ids : row'[j].at = row[j].at  BY <1>6
    <3>q. QED  BY <3>1, <1>1, <1>9, RunFacts
  <2> HIDE DEF r
  <2>q. QED  BY <1>12, <2>1, RunFacts, ListingKnows DEF r
<1> HIDE DEF r
<1>14. /\ run' \in [Senders -> Run]
       /\ \A q \in Senders \ {p} : run'[q] = run[q]
       /\ \A q \in Senders : Knows(q)'
  BY <1>10, <1>11, <1>13, OneMoves
<1>15. TypeOK'
  <2>1. \A q \in Senders : run'[q].pc \notin {"idle", "next"} => run'[q].cur \in Ids
    BY <1>11, <1>12, <1>14 DEF TypeOK
  <2>q. QED  BY <1>1, <1>5, <1>14, <2>1 DEF TypeOK
<1>16. Alone'  BY <1>13, <1>14, AloneKept
<1>17. \A a \in Authors : Reads(a)'
  <2> TAKE a \in Authors
  <2>1. \A j \in Ids : row'[j].at = row[j].at  BY <1>6
  <2>q. QED  BY <2>1, <1>1, <1>9, ReadsKept
<1>18. Rows'
  <2>1. row[i].status = "sent" => access[i] # "gone"  BY DEF Rows
  <2>q. QED  BY <2>1, <1>1, <1>4, <1>6, <1>7 DEF Rows, KnowsRow
<1>19. SentIsAccountedFor'
  <2>1. ASSUME NEW j \in Ids, row'[j].status = "sent", ~Posted(j), j \notin lost
        PROVE  \E q \in Senders : Holds(q, j)'
    <3>1. j # i  BY <2>1, <1>6
    <3>2. PICK q \in Senders : Holds(q, j)  BY <2>1, <3>1, <1>6 DEF SentIsAccountedFor
    <3>3. q # p  BY <3>1, <3>2, <1>2 DEF Holds
    <3>4. Holds(q, j)'  BY <3>2, <3>3, <1>14 DEF Holds
    <3>q. QED  BY <3>4
  <2>q. QED  BY <2>1, <1>1, <1>7 DEF SentIsAccountedFor
<1>20. PostedAsWritten'
  BY <1>1, <1>5, <1>6, <1>7, <1>8 DEF PostedAsWritten
<1>21. NeverEarly'  BY <1>1, <1>7 DEF NeverEarly
<1>q. QED  BY <1>14, <1>15, <1>16, <1>17, <1>18, <1>19, <1>20, <1>21

LEMMA StatementFailsKeeps == ASSUME Inv, NEW p \in Senders, StatementFails(p) PROVE Inv'
<1>1. /\ faults' \in 0..MaxFaults
      /\ UNCHANGED <<now, access, row, msg, cmd, undone, moved>>
  BY FaultsTyped, NumbersAssumption DEF StatementFails
<1>2. CASE run[p].pc = "next" /\ UNCHANGED lost
  <2>1. PICK e \in run[p].todo : Continue(p, run[p].todo \ {e})  BY <1>2 DEF StatementFails
  <2>2. \A i \in Ids : ~Holds(p, i)  BY <1>2 DEF Holds
  <2>q. QED  BY <1>1, <1>2, <2>1, <2>2, FaultsTyped, ContinueMoves
<1>3. CASE run[p].pc \in {"guard", "insert", "follow"}
  <2>1. Goto(p, "release") /\ UNCHANGED lost  BY <1>3 DEF StatementFails
  <2>2. run[p].pc \in Working  BY <1>3 DEF Working
  <2>q. QED  BY <1>1, <2>1, <2>2, GotoKeeps
<1>4. CASE run[p].pc \in {"read", "release"}
  <2>1. Continue(p, run[p].todo) /\ lost' = lost \cup {run[p].cur}
    BY <1>4 DEF StatementFails, AfterFailure
  <2>2. run[p].cur \in Ids /\ \A i \in Ids : Holds(p, i) => i = run[p].cur
    BY <1>4, RunFacts DEF Working
  <2>3. lost' \subseteq Ids /\ lost \subseteq lost'  BY <2>1, <2>2, FaultsTyped
  <2>q. QED  BY <1>1, <2>1, <2>2, <2>3, ContinueMoves
<1>q. QED  BY <1>2, <1>3, <1>4 DEF StatementFails

LEMMA CrashKeeps == ASSUME Inv, NEW p \in Senders, Crash(p) PROVE Inv'
<1>1. /\ faults' \in 0..MaxFaults
      /\ UNCHANGED <<now, access, row, msg, cmd, undone, moved>>
      /\ lost' = IF run[p].pc = "next" THEN lost ELSE lost \cup {run[p].cur}
      /\ Continue(p, {})
      /\ run[p].pc # "idle"
  BY FaultsTyped, NumbersAssumption DEF Crash, Continue, Listing
<1>2. /\ run[p].pc # "next" => run[p].cur \in Ids
      /\ \A i \in Ids : Holds(p, i) => i = run[p].cur /\ run[p].pc # "next"
  BY <1>1, RunFacts DEF Working, Run
<1>3. lost' \subseteq Ids /\ lost \subseteq lost'  BY <1>1, <1>2, FaultsTyped
<1>q. QED  BY <1>1, <1>2, <1>3, ContinueMoves

-----------------------------------------------------------------------------
(* Every step keeps the invariant, and an edit keeps what it does not name. *)

LEMMA NextKeeps == Inv /\ [Next]_vars => Inv'
<1> SUFFICES ASSUME Inv, [Next]_vars PROVE Inv'
  OBVIOUS
<1>1. CASE UNCHANGED vars
  BY <1>1 DEF vars, Inv, TypeOK, Rows, Knows, KnowsList, KnowsRow, Alone, Reads, Holds, Posted,
             SentIsAccountedFor, PostedAsWritten, NeverEarly
<1>2. ASSUME NEW i \in Ids, Schedule(i) \/ ChangeAccess(i) \/ DeleteChannel(i) PROVE Inv'
  BY <1>2, ScheduleKeeps, ChangeAccessKeeps, DeleteChannelKeeps
<1>3. ASSUME NEW a \in Authors,
             (\E i \in Ids : BeginEdit(a, i) \/ BeginCancel(a, i)) \/ Edit(a) \/ Cancel(a)
      PROVE  Inv'
  BY <1>3, BeginEditKeeps, BeginCancelKeeps, EditKeeps, CancelKeeps
<1>4. ASSUME NEW p \in Senders, Select(p) \/ Delivery(p) \/ StatementFails(p) \/ Crash(p)
      PROVE  Inv'
  BY <1>4, SelectKeeps, LeaseKeeps, RereadKeeps, GuardKeeps, InsertKeeps, FollowKeeps,
     ReleaseKeeps, StatementFailsKeeps, CrashKeeps DEF Delivery
<1>q. QED  BY <1>1, <1>2, <1>3, <1>4, TickKeeps DEF Next

LEMMA EditStep ==
  Inv /\ Next => \A i \in Ids :
    row[i].status = "pending" /\ row'[i].at # row[i].at =>
        \E a \in Authors : cmd[a].id = i /\ (cmd[a].asked \/ cmd[a].passed)
<1> SUFFICES ASSUME Inv, Next, NEW i \in Ids, row[i].status = "pending", row'[i].at # row[i].at
             PROVE  \E a \in Authors : cmd[a].id = i /\ (cmd[a].asked \/ cmd[a].passed)
  OBVIOUS
<1>0. row \in [Ids -> Row]  BY DEF Inv, TypeOK
<1>1. ASSUME Tick  PROVE FALSE  BY <1>1 DEF Tick
<1>2. ASSUME NEW j \in Ids, Schedule(j) \/ ChangeAccess(j) \/ DeleteChannel(j) PROVE FALSE
  BY <1>0, <1>2 DEF Schedule, ChangeAccess, DeleteChannel, Row
<1>3. ASSUME NEW a \in Authors, NEW j \in Ids, BeginEdit(a, j) \/ BeginCancel(a, j) PROVE FALSE
  BY <1>3 DEF BeginEdit, BeginCancel
<1>4. ASSUME NEW a \in Authors, Cancel(a) PROVE FALSE
  BY <1>0, <1>4 DEF Cancel, Row
<1>5. ASSUME NEW a \in Authors, Edit(a)
      PROVE  cmd[a].id = i /\ (cmd[a].asked \/ cmd[a].passed)
  <2>1. Editable(cmd[a].id)  BY <1>5 DEF Edit
  <2>2. row' = [row EXCEPT ![cmd[a].id].text = cmd[a].text, ![cmd[a].id].at = cmd[a].at]
        /\ cmd[a].pc = "edit"
    BY <1>5, <2>1 DEF Edit
  <2>3. cmd[a].id = i  BY <1>0, <2>2
  <2>4. row'[i].at = cmd[a].at  BY <1>0, <2>2, <2>3 DEF Row
  <2>5. Reads(a)  BY DEF Inv
  <2>6. cmd[a] \in Cmd  BY DEF Inv, TypeOK
  <2>q. QED  BY <2>2, <2>3, <2>4, <2>5, <2>6 DEF Reads, Cmd
<1>6. ASSUME NEW p \in Senders, Select(p) \/ Delivery(p) \/ StatementFails(p) \/ Crash(p)
      PROVE  FALSE
  <2>1. UNCHANGED row \/ Lease(p) \/ Release(p)
    BY <1>6 DEF Select, Delivery, Reread, Guard, Insert, Follow, StatementFails, Crash
  <2>2. CASE Lease(p)  BY <1>0, <2>2 DEF Lease, Row
  <2>3. CASE Release(p)  BY <1>0, <2>3 DEF Release, Row
  <2>q. QED  BY <2>1, <2>2, <2>3
<1>q. QED  BY <1>1, <1>2, <1>3, <1>4, <1>5, <1>6 DEF Next

(* The invariant holds in every reachable state. *)
THEOREM ScheduledInvariant == Spec => []Inv
<1>q. QED  BY Initial, NextKeeps, PTL DEF Spec

(* Every variable keeps its type: a run past its lease knows its intent. *)
THEOREM ScheduledTypeCorrect == Spec => []TypeOK
<1>1. Inv => TypeOK  BY DEF Inv
<1>q. QED  BY <1>1, ScheduledInvariant, PTL

(* Two concurrent runs cannot both win the lease UPDATE of an intent, and   *)
(* nothing but the winner touches the row until it is done.                 *)
THEOREM OneRunPerIntent == Spec => []LeaseIsExclusive
<1>1. Inv => LeaseIsExclusive  BY DEF Inv, Alone, Knows, KnowsRow, LeaseIsExclusive
<1>q. QED  BY <1>1, ScheduledInvariant, PTL

(* A sent row with no message is explained: a run is at work on it, or a    *)
(* crash or a failed statement took the lease from the run that had it.     *)
THEOREM SentRowsExplained == Spec => []SentIsAccountedFor
<1>1. Inv => SentIsAccountedFor  BY DEF Inv
<1>q. QED  BY <1>1, ScheduledInvariant, PTL

(* What is posted agrees with the row the author sees, and the row is sent, *)
(* unless the lease was released after the message was posted.              *)
THEOREM PostsAgreeWithRows == Spec => []PostedAsWritten
<1>1. Inv => PostedAsWritten  BY DEF Inv
<1>q. QED  BY <1>1, ScheduledInvariant, PTL

(* A message is posted before its time only if its author put it off while  *)
(* a run had it on its list.                                                *)
THEOREM PostsNeverEarly == Spec => []NeverEarly
<1>1. Inv => NeverEarly  BY DEF Inv
<1>q. QED  BY <1>1, ScheduledInvariant, PTL

(* An edit that names no time moves the time of an intent only over another *)
(* edit that was written after it read the row.                             *)
THEOREM EditsKeepTheRest == Spec => EditKeepsTheRest
<1>1. Inv /\ [Next]_vars =>
        [\A i \in Ids : row[i].status = "pending" /\ row'[i].at # row[i].at =>
            \E a \in Authors : cmd[a].id = i /\ (cmd[a].asked \/ cmd[a].passed)]_vars
  BY EditStep
<1>q. QED  BY <1>1, ScheduledInvariant, PTL DEF Spec, EditKeepsTheRest
=============================================================================
