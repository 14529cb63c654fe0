------------------------ MODULE PackageRegistry_proofs ------------------------
(***************************************************************************)
(* Proofs about PackageRegistry: the type invariant, and the invariants of *)
(* one asset and one blob, for any number of clients, versions and files.  *)
(***************************************************************************)
EXTENDS PackageRegistry, FiniteSetTheorems, TLAPS

-----------------------------------------------------------------------------
(* Types.                                                                   *)

LEMMA IdleIsACall == Idle \in Call /\ Shape(Idle)
  BY NamesAssumption, BoundsAssumption DEF Idle, Call, Shape, Payload

LEMMA EmptyRow ==
  /\ NoFiles \in [Files -> Payload]
  /\ \A b \in Nat : NoRow(b) \in Row
  BY BoundsAssumption DEF NoFiles, NoRow, Row, Payload

(* What a step of one client leaves to the others. *)
LEMMA OthersStay ==
  ASSUME TypeOK, NEW c \in Clients, NEW k, Goto(c, k)
  PROVE  call'[c] = k /\ \A e \in Clients \ {c} : call'[e] = call[e]
  BY DEF TypeOK, Goto

LEMMA GotoTyped ==
  ASSUME TypeOK, NEW c \in Clients, NEW k \in Call, Shape(k), Goto(c, k)
  PROVE  call' \in [Clients -> Call] /\ \A e \in Clients : Shape(call'[e])
<1>1. call' \in [Clients -> Call]
  BY DEF TypeOK, Goto
<1>q. QED  BY <1>1, OthersStay DEF TypeOK

LEMMA ContinueTyped ==
  ASSUME TypeOK, NEW c \in Clients, NEW S \in SUBSET Versions
  PROVE  Continue(c, S) \in Call /\ Shape(Continue(c, S))
<1>1. CASE S = {}
  BY <1>1, IdleIsACall DEF Continue
<1>2. CASE S # {}
  <2>1. call[c] \in Call
    BY DEF TypeOK
  <2>2. 0 \in Payload
    BY BoundsAssumption DEF Payload
  <2>3. Continue(c, S) = [call[c] EXCEPT !.pc = "publish", !.todo = S, !.v = None, !.payload = 0]
    BY <1>2 DEF Continue
  <2>4. Continue(c, S) \in Call
    BY <2>1, <2>2, <2>3 DEF Call
  <2>5. Continue(c, S).pc = "publish"
    BY <2>1, <2>3 DEF Call
  <2>q. QED  BY <2>4, <2>5 DEF Shape
<1>q. QED  BY <1>1, <1>2

-----------------------------------------------------------------------------
(* What the type invariant says of each part of the state. *)

CallsTyped == call \in [Clients -> Call] /\ \A e \in Clients : Shape(call[e])

StoreTyped ==
  /\ repo \in BOOLEAN
  /\ row \in [Versions -> Row]
  /\ disk \in [Versions -> [Files -> Payload]]

BlobsTyped ==
  /\ final \in [Digests -> Content]
  /\ staging \in [Digests -> Content]
  /\ accepted \subseteq Digests

CountsTyped == payloads \in Payload /\ begun \in 0..MaxCommands /\ faults \in 0..MaxFaults

HistoryTyped ==
  /\ raced \subseteq Versions \X Files
  /\ torn \subseteq (Versions \X Files) \cup Digests
  /\ reopened \subseteq Versions
  /\ byHand \subseteq Versions /\ relisted \subseteq Versions

LEMMA TypeParts ==
  TypeOK <=> /\ CallsTyped /\ StoreTyped /\ BlobsTyped /\ CountsTyped /\ HistoryTyped
             /\ sealed \in [Versions -> [Files -> Payload]]
  BY DEF TypeOK, CallsTyped, StoreTyped, BlobsTyped, CountsTyped, HistoryTyped

LEMMA BeginTyped ==
  ASSUME TypeOK, NEW c \in Clients, NEW k \in Call, Shape(k), Begin(c, k)
  PROVE  CallsTyped' /\ begun' \in 0..MaxCommands
<1>1. Goto(c, k)
  BY DEF Begin
<1>2. begun' \in 0..MaxCommands
  BY BoundsAssumption DEF Begin, TypeOK
<1>q. QED  BY <1>1, <1>2, GotoTyped DEF CallsTyped

(* A publish of one version, with the reads that fail. *)
PublishOf(c, v, unread) ==
  LET k == call[c]  f == k.file  n == payloads + 1
      old == IF "_files" \in unread THEN NoFiles ELSE row[v].files
  IN
  /\ Is(c, "publish")
  /\ Refused(v, f) => "immutable" \in unread
  /\ f # None => payloads < MaxPayloads
  /\ faults' = faults + Cardinality(unread) /\ faults' <= MaxFaults
  /\ \E b \in 1..begun :
       /\ IF Stored(v) THEN b = row[v].born ELSE \A u \in Versions : row[u].born <= b
       /\ row' = [row EXCEPT ![v] = [@ EXCEPT !.stored = TRUE, !.files = Listing(old, f, n),
                                              !.main = f, !.immutable = k.immutable, !.born = b]]
  /\ IF f = None
       THEN Goto(c, Continue(c, k.todo \ {v})) /\ UNCHANGED <<payloads, raced, torn>>
       ELSE /\ Goto(c, [k EXCEPT !.pc = "rename", !.todo = k.todo \ {v}, !.v = v, !.payload = n])
            /\ payloads' = n
            /\ raced' = IF \E e \in Clients \ {c} : Awaits(e, v, f)
                        THEN raced \cup {<<v, f>>} ELSE raced \ {<<v, f>>}
            /\ torn' = torn \ {<<v, f>>}
  /\ reopened' = IF Stored(v) /\ row[v].immutable /\ (~k.immutable \/ unread # {})
                 THEN reopened \cup {v} ELSE reopened
  /\ IF Stored(v) THEN UNCHANGED <<byHand, relisted>>
     ELSE /\ byHand' = byHand \ {v}
          /\ relisted' = IF Doomed(v) THEN relisted \cup {v} ELSE relisted \ {v}
  /\ UNCHANGED <<repo, disk, blobs, begun>>

LEMMA PublishIs ==
  ASSUME NEW c \in Clients, Publish(c)
  PROVE  \E v \in call[c].todo, unread \in SUBSET {"immutable", "_files"} : PublishOf(c, v, unread)
  BY DEF Publish, PublishOf

(* Each action keeps the types. *)
LEMMA PublishTyped ==
  ASSUME TypeOK, NEW c \in Clients, Publish(c)
  PROVE  CallsTyped' /\ StoreTyped' /\ BlobsTyped' /\ CountsTyped' /\ HistoryTyped'
<1> DEFINE k == call[c]  f == k.file  n == payloads + 1
<1>0. k \in Call /\ Shape(k)
  BY DEF TypeOK
<1>1. PICK v \in k.todo :
        /\ f # None => payloads < MaxPayloads
        /\ \E b \in 1..begun, old \in {NoFiles, row[v].files} :
             row' = [row EXCEPT ![v] = [@ EXCEPT !.stored = TRUE, !.files = Listing(old, f, n),
                                                 !.main = f, !.immutable = k.immutable, !.born = b]]
        /\ IF f = None
             THEN Goto(c, Continue(c, k.todo \ {v})) /\ UNCHANGED <<payloads, raced, torn>>
             ELSE /\ Goto(c, [k EXCEPT !.pc = "rename", !.todo = k.todo \ {v}, !.v = v, !.payload = n])
                  /\ payloads' = n
                  /\ raced' \subseteq raced \cup {<<v, f>>}
                  /\ torn' \subseteq torn
        /\ reopened' \subseteq reopened \cup {v}
        /\ byHand' \subseteq byHand /\ relisted' \subseteq relisted \cup {v}
        /\ faults' \in 0..MaxFaults
        /\ UNCHANGED <<repo, disk, blobs, begun>>
  <2>1. PICK v \in k.todo, unread \in SUBSET {"immutable", "_files"} : PublishOf(c, v, unread)
    BY PublishIs
  <2>2. Cardinality(unread) \in Nat
    <3>1. IsFiniteSet({"immutable", "_files"})
      <4>1. {"immutable", "_files"} = {"immutable"} \cup {"_files"}
        OBVIOUS
      <4>2. IsFiniteSet({"immutable"})
        BY FS_Singleton
      <4>q. QED  BY <4>1, <4>2, FS_AddElement
    <3>q. QED  BY <3>1, FS_Subset, FS_CardinalityType
  <2>3. faults' \in 0..MaxFaults
    BY <2>1, <2>2, BoundsAssumption DEF PublishOf, TypeOK
  <2>q. QED  BY <2>1, <2>3 DEF PublishOf
<1>2. v \in Versions /\ k.todo \ {v} \in SUBSET Versions
  BY <1>0, <1>1 DEF Call
<1>3. f \in Files \cup {None} /\ k.immutable \in BOOLEAN
  BY <1>0 DEF Call
<1>4. f # None => n \in Payload
  BY <1>1, BoundsAssumption DEF TypeOK, Payload
<1>5. \A old \in {NoFiles, row[v].files} : Listing(old, f, n) \in [Files -> Payload]
  <2>1. row[v].files \in [Files -> Payload] /\ NoFiles \in [Files -> Payload]
    BY <1>2, BoundsAssumption DEF TypeOK, Row, NoFiles, Payload
  <2>q. QED  BY <2>1, <1>3, <1>4 DEF Listing
<1>6. row' \in [Versions -> Row]
  <2>1. PICK b \in 1..begun, old \in {NoFiles, row[v].files} :
          row' = [row EXCEPT ![v] = [@ EXCEPT !.stored = TRUE, !.files = Listing(old, f, n),
                                              !.main = f, !.immutable = k.immutable, !.born = b]]
    BY <1>1
  <2>2. b \in Nat /\ row[v] \in Row
    BY <1>2, BoundsAssumption DEF TypeOK
  <2> HIDE DEF f, n, k
  <2>3. [row[v] EXCEPT !.stored = TRUE, !.files = Listing(old, f, n),
                       !.main = f, !.immutable = k.immutable, !.born = b] \in Row
    BY <2>2, <1>3, <1>5 DEF Row
  <2>q. QED  BY <2>1, <2>3, <1>2 DEF TypeOK
<1>7. CallsTyped'
  <2>1. CASE f = None
    BY <1>1, <1>2, <2>1, ContinueTyped, GotoTyped DEF CallsTyped
  <2>2. CASE f # None
    <3> DEFINE r == [k EXCEPT !.pc = "rename", !.todo = k.todo \ {v}, !.v = v, !.payload = n]
    <3>1. r \in Call
      BY <1>0, <1>2, <1>4, <2>2 DEF Call
    <3>2. r.pc = "rename" /\ r.v = v /\ r.file = f
      BY <1>0 DEF Call
    <3>3. Shape(r)
      BY <3>2, <1>2, <1>3, <2>2 DEF Shape
    <3>4. Goto(c, r)
      BY <1>1, <2>2
    <3> HIDE DEF r
    <3>q. QED  BY <3>1, <3>3, <3>4, GotoTyped DEF CallsTyped
  <2>q. QED  BY <2>1, <2>2
<1>8. HistoryTyped'
  BY <1>1, <1>2, <1>3 DEF TypeOK, HistoryTyped
<1>9. CountsTyped'
  BY <1>1, <1>4 DEF TypeOK, CountsTyped
<1>q. QED  BY <1>1, <1>6, <1>7, <1>8, <1>9 DEF TypeOK, StoreTyped, BlobsTyped, blobs

LEMMA BeginsTyped ==
  ASSUME TypeOK, NEW c \in Clients,
         \/ BeginPublish(c) \/ BeginSweep(c) \/ BeginDeleteRepository(c)
         \/ \E v \in Versions : BeginDelete(c, v) \/ BeginDownload(c, v)
         \/ \E d \in Digests : BeginUpload(c, d)
  PROVE  CallsTyped' /\ StoreTyped' /\ BlobsTyped' /\ CountsTyped' /\ HistoryTyped'
<1>1. CASE BeginPublish(c)
  <2>1. PICK S \in SUBSET Versions \ {{}}, f \in Files \cup {None}, imm \in BOOLEAN :
          Begin(c, [Idle EXCEPT !.pc = "publish", !.todo = S, !.file = f, !.immutable = imm])
    BY <1>1 DEF BeginPublish
  <2> DEFINE k == [Idle EXCEPT !.pc = "publish", !.todo = S, !.file = f, !.immutable = imm]
  <2>2. k \in Call /\ Shape(k)
    BY IdleIsACall DEF Call, Shape, Idle
  <2>3. Begin(c, k)
    BY <2>1
  <2> HIDE DEF k
  <2>q. QED  BY <1>1, <2>2, <2>3, BeginTyped
             DEF BeginPublish, TypeOK, StoreTyped, BlobsTyped, CountsTyped, HistoryTyped, registry, blobs, history
<1>2. CASE BeginSweep(c)
  <2>1. PICK S \in SUBSET Versions : Begin(c, [Idle EXCEPT !.pc = "sweep", !.todo = S])
    BY <1>2 DEF BeginSweep
  <2> DEFINE k == [Idle EXCEPT !.pc = "sweep", !.todo = S]
  <2>2. k \in Call /\ Shape(k)
    BY IdleIsACall DEF Call, Shape, Idle
  <2>3. Begin(c, k)
    BY <2>1
  <2> HIDE DEF k
  <2>q. QED  BY <1>2, <2>2, <2>3, BeginTyped
             DEF BeginSweep, TypeOK, StoreTyped, BlobsTyped, CountsTyped, HistoryTyped, registry, blobs, history
<1>3. CASE BeginDeleteRepository(c)
  <2> DEFINE k == [Idle EXCEPT !.pc = "drop repository"]
  <2>1. k \in Call /\ Shape(k)
    BY IdleIsACall DEF Call, Shape, Idle
  <2>2. Begin(c, k)
    BY <1>3 DEF BeginDeleteRepository
  <2>3. row' \in [Versions -> Row]
    BY <1>3, EmptyRow DEF BeginDeleteRepository, TypeOK, Row
  <2> HIDE DEF k
  <2>q. QED  BY <1>3, <2>1, <2>2, <2>3, BeginTyped
             DEF BeginDeleteRepository, TypeOK, StoreTyped, BlobsTyped, CountsTyped, HistoryTyped, registry, blobs, history
<1>4. ASSUME NEW v \in Versions, BeginDelete(c, v) \/ BeginDownload(c, v)
      PROVE  CallsTyped' /\ StoreTyped' /\ BlobsTyped' /\ CountsTyped' /\ HistoryTyped'
  <2>1. PICK l \in {"lookup", "bump"} : Begin(c, [Idle EXCEPT !.pc = l, !.v = v])
    BY <1>4 DEF BeginDelete, BeginDownload
  <2> DEFINE k == [Idle EXCEPT !.pc = l, !.v = v]
  <2>2. k \in Call /\ Shape(k)
    BY IdleIsACall DEF Call, Shape, Idle
  <2>3. Begin(c, k)
    BY <2>1
  <2> HIDE DEF k
  <2>q. QED  BY <1>4, <2>2, <2>3, BeginTyped
             DEF BeginDelete, BeginDownload, TypeOK, StoreTyped, BlobsTyped, CountsTyped, HistoryTyped, registry, blobs, history
<1>5. ASSUME NEW d \in Digests, BeginUpload(c, d)
      PROVE  CallsTyped' /\ StoreTyped' /\ BlobsTyped' /\ CountsTyped' /\ HistoryTyped'
  <2>1. PICK k \in Call : Shape(k) /\ Begin(c, k)
    <3>1. [Idle EXCEPT !.pc = "stage", !.digest = d] \in Call
      BY IdleIsACall DEF Call
    <3>2. Shape([Idle EXCEPT !.pc = "stage", !.digest = d])
      BY IdleIsACall DEF Shape, Idle
    <3>q. QED  BY <1>5, <3>1, <3>2, IdleIsACall DEF BeginUpload
  <2>2. accepted' \subseteq Digests
    BY <1>5 DEF BeginUpload, TypeOK
  <2>q. QED  BY <1>5, <2>1, <2>2, BeginTyped
             DEF BeginUpload, TypeOK, StoreTyped, BlobsTyped, CountsTyped, HistoryTyped, registry, history
<1>q. QED  BY <1>1, <1>2, <1>3, <1>4, <1>5

LEMMA AssetStepsTyped ==
  ASSUME TypeOK, NEW c \in Clients,
         \/ Refuse(c) \/ Rename(c) \/ SweepNext(c) \/ Lookup(c) \/ Unlink(c) \/ UnlinkFails(c)
         \/ Drop(c) \/ DropRepository(c) \/ Bump(c) \/ Stop(c)
  PROVE  CallsTyped' /\ StoreTyped' /\ BlobsTyped' /\ CountsTyped' /\ HistoryTyped'
<1> DEFINE k == call[c]
<1>0. k \in Call /\ Shape(k)
  BY DEF TypeOK
<1>1. CASE Refuse(c) \/ DropRepository(c)
  <2>1. Return(c)
    BY <1>1 DEF Refuse, DropRepository
  <2>2. CallsTyped'
    BY <2>1, IdleIsACall, GotoTyped DEF Return, CallsTyped
  <2>q. QED  BY <1>1, <2>2 DEF Refuse, DropRepository, TypeOK, StoreTyped, BlobsTyped, CountsTyped, HistoryTyped,
                               registry, blobs, history
<1>2. CASE Rename(c)
  <2>1. k.todo \in SUBSET Versions /\ k.v \in Versions /\ k.file \in Files /\ k.payload \in Payload
    BY <1>0, <1>2 DEF Rename, Is, Call, Shape
  <2>2. CallsTyped'
    BY <1>2, <2>1, ContinueTyped, GotoTyped DEF Rename, CallsTyped
  <2>3. disk' \in [Versions -> [Files -> Payload]]
    BY <1>2, <2>1 DEF Rename, TypeOK
  <2>q. QED  BY <1>2, <2>2, <2>3 DEF Rename, TypeOK, StoreTyped, BlobsTyped, CountsTyped, HistoryTyped, blobs, history
<1>3. CASE SweepNext(c)
  <2>1. PICK v \in k.todo :
          Goto(c, [call[c] EXCEPT !.pc = "lookup", !.v = v, !.todo = call[c].todo \ {v}])
    BY <1>3 DEF SweepNext
  <2> DEFINE r == [call[c] EXCEPT !.pc = "lookup", !.v = v, !.todo = call[c].todo \ {v}]
  <2>2. v \in Versions
    BY <1>0 DEF Call
  <2>3. r \in Call
    BY <1>0, <2>2 DEF Call
  <2>4. r.pc = "lookup" /\ r.v = v
    BY <1>0 DEF Call
  <2>5. Shape(r)
    BY <2>2, <2>4 DEF Shape
  <2>6. Goto(c, r)
    BY <2>1
  <2> HIDE DEF r
  <2>7. CallsTyped'
    BY <2>3, <2>5, <2>6, GotoTyped DEF CallsTyped
  <2>q. QED  BY <1>3, <2>7 DEF SweepNext, TypeOK, StoreTyped, BlobsTyped, CountsTyped, HistoryTyped, registry, blobs, history
<1>4. CASE Lookup(c)
  <2> DEFINE f == Target(k.v)
  <2> DEFINE r == [call[c] EXCEPT !.pc = IF f = None THEN "drop" ELSE "unlink", !.file = f]
  <2>1. k.v \in Versions
    BY <1>0, <1>4 DEF Lookup, Is, Shape
  <2>2. f \in Files \cup {None}
    BY <2>1 DEF Target, TypeOK, Row
  <2> HIDE DEF f
  <2>3. r \in Call
    BY <1>0, <2>2 DEF Call
  <2>4. r.v = k.v /\ r.file = f /\ (r.pc = "drop" \/ (r.pc = "unlink" /\ f # None))
    BY <1>0 DEF Call
  <2>5. Shape(r)
    BY <2>1, <2>2, <2>4 DEF Shape
  <2>6. Goto(c, r)
    BY <1>4 DEF Lookup, f
  <2> HIDE DEF r
  <2>7. CallsTyped'
    BY <2>3, <2>5, <2>6, GotoTyped DEF CallsTyped
  <2>q. QED  BY <1>4, <2>7 DEF Lookup, TypeOK, StoreTyped, BlobsTyped, CountsTyped, HistoryTyped, registry, blobs, history
<1>5. CASE Unlink(c) \/ UnlinkFails(c)
  <2>1. PICK f \in Files \cup {None} : Goto(c, [k EXCEPT !.pc = "drop", !.file = f])
    <3>1. [k EXCEPT !.pc = "drop"] = [k EXCEPT !.pc = "drop", !.file = k.file]
      BY <1>0 DEF Call
    <3>q. QED  BY <1>0, <1>5, <3>1 DEF Unlink, UnlinkFails, Call
  <2> DEFINE r == [k EXCEPT !.pc = "drop", !.file = f]
  <2>2. k.v \in Versions /\ k.file \in Files
    BY <1>0, <1>5 DEF Unlink, UnlinkFails, Is, Shape
  <2>3. r \in Call
    BY <1>0 DEF Call
  <2>4. r.pc = "drop" /\ r.v = k.v
    BY <1>0 DEF Call
  <2>5. Shape(r)
    BY <2>2, <2>4 DEF Shape
  <2>6. Goto(c, r)
    BY <2>1
  <2> HIDE DEF r
  <2>7. CallsTyped'
    BY <2>3, <2>5, <2>6, GotoTyped DEF CallsTyped
  <2>8. disk' \in [Versions -> [Files -> Payload]]
    <3>1. 0 \in Payload
      BY BoundsAssumption DEF Payload
    <3>2. CASE Unlink(c)
      BY <2>2, <3>1, <3>2 DEF Unlink, TypeOK
    <3>3. CASE UnlinkFails(c)
      BY <3>3 DEF UnlinkFails, TypeOK, registry
    <3>q. QED  BY <1>5, <3>2, <3>3
  <2>9. faults' \in 0..MaxFaults
    BY <1>5, BoundsAssumption DEF Unlink, UnlinkFails, TypeOK
  <2>q. QED  BY <1>5, <2>7, <2>8, <2>9
             DEF Unlink, UnlinkFails, TypeOK, StoreTyped, BlobsTyped, CountsTyped, HistoryTyped, registry, blobs, history
<1>6. CASE Drop(c)
  <2>1. k.v \in Versions /\ k.todo \in SUBSET Versions
    BY <1>0, <1>6 DEF Drop, Is, Shape, Call
  <2>2. row' \in [Versions -> Row]
    BY <1>6, <2>1, EmptyRow DEF Drop, TypeOK, Row
  <2> DEFINE r == [Idle EXCEPT !.pc = "sweep", !.todo = k.todo]
  <2>3. r \in Call /\ Shape(r)
    BY <2>1, IdleIsACall DEF Call, Shape, Idle
  <2>4. Goto(c, Idle) \/ Goto(c, r)
    BY <1>6 DEF Drop
  <2> HIDE DEF r
  <2>5. CallsTyped'
    BY <2>3, <2>4, IdleIsACall, GotoTyped DEF CallsTyped
  <2>q. QED  BY <1>6, <2>2, <2>5 DEF Drop, TypeOK, StoreTyped, BlobsTyped, CountsTyped, HistoryTyped, blobs
<1>7. CASE Bump(c)
  <2>1. k.v \in Versions
    BY <1>0, <1>7 DEF Bump, Is, Shape
  <2>2. row' \in [Versions -> Row]
    <3>1. row[k.v] \in Row /\ Stored(k.v) \in BOOLEAN
      BY <2>1 DEF TypeOK, Row, Stored
    <3>2. [row[k.v] EXCEPT !.downloaded = Stored(k.v)] \in Row
      BY <3>1 DEF Row
    <3>q. QED  BY <1>7, <3>2 DEF Bump, TypeOK
  <2>3. CallsTyped'
    BY <1>7, IdleIsACall, GotoTyped DEF Bump, Return, CallsTyped
  <2>q. QED  BY <1>7, <2>2, <2>3 DEF Bump, TypeOK, StoreTyped, BlobsTyped, CountsTyped, HistoryTyped, blobs, history
<1>8. CASE Stop(c)
  <2>1. CallsTyped'
    BY <1>8, IdleIsACall, GotoTyped DEF Stop, Return, CallsTyped
  <2>2. Leftover(k) \subseteq (Versions \X Files) \cup Digests
    <3>1. CASE k.pc = "write"
      BY <1>0, <3>1 DEF Leftover, Shape
    <3>2. CASE k.pc \in {"rename", "drop"} /\ k.file # None
      <4>1. k.v \in Versions
        BY <1>0, <3>2 DEF Shape
      <4>2. k.file \in Files
        BY <1>0, <3>2 DEF Call
      <4>q. QED  BY <3>2, <4>1, <4>2 DEF Leftover
    <3>3. CASE k.pc # "write" /\ ~(k.pc \in {"rename", "drop"} /\ k.file # None)
      BY <3>3 DEF Leftover
    <3>q. QED  BY <3>1, <3>2, <3>3
  <2>3. faults' \in 0..MaxFaults
    BY <1>8, BoundsAssumption DEF Stop, TypeOK
  <2>q. QED  BY <1>8, <2>1, <2>2, <2>3 DEF Stop, TypeOK, StoreTyped, BlobsTyped, CountsTyped, HistoryTyped, registry, blobs
<1>q. QED  BY <1>1, <1>2, <1>3, <1>4, <1>5, <1>6, <1>7, <1>8

LEMMA BlobStepsTyped ==
  ASSUME TypeOK, NEW c \in Clients, Stage(c) \/ Write(c) \/ Commit(c)
  PROVE  CallsTyped' /\ StoreTyped' /\ BlobsTyped' /\ CountsTyped' /\ HistoryTyped'
<1> DEFINE k == call[c]
<1>0. k \in Call /\ Shape(k) /\ k.digest \in Digests
  BY DEF TypeOK, Stage, Write, Commit, Is, Shape
<1>1. CASE Stage(c) \/ Write(c)
  <2>1. PICK l \in {"write", "commit"}, a \in {"staging", "final", "lost"} :
          Goto(c, [k EXCEPT !.pc = l, !.at = a])
    <3>1. [k EXCEPT !.pc = "commit"] = [k EXCEPT !.pc = "commit", !.at = k.at]
      BY <1>0 DEF Call
    <3>q. QED  BY <1>0, <1>1, <3>1 DEF Stage, Write, Call
  <2> DEFINE r == [k EXCEPT !.pc = l, !.at = a]
  <2>2. r \in Call
    BY <1>0 DEF Call
  <2>3. r.digest = k.digest /\ r.pc = l
    BY <1>0 DEF Call
  <2>4. Shape(r)
    BY <1>0, <2>3 DEF Shape
  <2>5. Goto(c, r)
    BY <2>1
  <2> HIDE DEF r
  <2>6. CallsTyped'
    BY <2>2, <2>4, <2>5, GotoTyped DEF CallsTyped
  <2>7. BlobsTyped'
    BY <1>0, <1>1 DEF Stage, Write, Written, TypeOK, BlobsTyped, Content, blobs
  <2>q. QED  BY <1>1, <2>6, <2>7 DEF Stage, Write, TypeOK, StoreTyped, CountsTyped, HistoryTyped, registry, history
<1>2. CASE Commit(c)
  <2>1. BlobsTyped'
    BY <1>0, <1>2 DEF Commit, TypeOK, BlobsTyped, Content, blobs
  <2>2. \A e \in Clients : Moved(call[e], k.digest) \in Call /\ Shape(Moved(call[e], k.digest))
    <3> TAKE e \in Clients
    <3>1. call[e] \in Call /\ Shape(call[e])
      BY DEF TypeOK
    <3>2. PICK a \in {"staging", "final", "lost"} :
             Moved(call[e], k.digest) = [call[e] EXCEPT !.at = a]
      <4>1. call[e] = [call[e] EXCEPT !.at = call[e].at]
        BY <3>1 DEF Call
      <4>q. QED  BY <3>1, <4>1 DEF Moved, Call
    <3>3. [call[e] EXCEPT !.at = a] \in Call
      BY <3>1 DEF Call
    <3>4. Shape([call[e] EXCEPT !.at = a])
      BY <3>1 DEF Shape, Call
    <3>q. QED  BY <3>2, <3>3, <3>4
  <2>3. CallsTyped'
    <3>1. CASE Return(c)
      BY <3>1, IdleIsACall, GotoTyped DEF Return, CallsTyped
    <3>2. CASE call' = [e \in Clients |-> IF e = c THEN Idle ELSE Moved(call[e], k.digest)]
      BY <3>2, <2>2, IdleIsACall DEF CallsTyped
    <3>q. QED  BY <1>2, <3>1, <3>2 DEF Commit
  <2>q. QED  BY <1>2, <2>1, <2>3 DEF Commit, TypeOK, StoreTyped, CountsTyped, HistoryTyped, registry, history
<1>q. QED  BY <1>1, <1>2

LEMMA PinTyped ==
  ASSUME TypeOK, NEW v \in Versions, NEW on \in BOOLEAN, Pin(v, on)
  PROVE  CallsTyped' /\ StoreTyped' /\ BlobsTyped' /\ CountsTyped' /\ HistoryTyped'
<1>1. row' \in [Versions -> Row]
  <2>1. row[v] \in Row /\ row \in [Versions -> Row]  BY DEF TypeOK
  <2>2. [row[v] EXCEPT !.pinned = on] \in Row  BY <2>1 DEF Row
  <2>q. QED  BY <2>1, <2>2 DEF Pin
<1>2. begun' \in 0..MaxCommands
  BY BoundsAssumption DEF Pin, TypeOK
<1>q. QED  BY <1>1, <1>2 DEF Pin, TypeOK, CallsTyped, StoreTyped, BlobsTyped, CountsTyped, HistoryTyped, blobs, history

LEMMA TypeInvariant == TypeOK /\ [Next]_vars => TypeOK'
<1> SUFFICES ASSUME TypeOK, [Next]_vars PROVE TypeOK'
  OBVIOUS
<1>1. CASE Next
  <2>1. CallsTyped' /\ StoreTyped' /\ BlobsTyped' /\ CountsTyped' /\ HistoryTyped'
    BY <1>1, PublishTyped, BeginsTyped, AssetStepsTyped, BlobStepsTyped, PinTyped DEF Next, Step
  <2>2. sealed' \in [Versions -> [Files -> Payload]]
    <3>1. disk' \in [Versions -> [Files -> Payload]]
      BY <2>1 DEF StoreTyped
    <3>q. QED  BY <1>1, <3>1, BoundsAssumption DEF Next, Seal, TypeOK, Payload
  <2>q. QED  BY <2>1, <2>2 DEF TypeOK, CallsTyped, StoreTyped, BlobsTyped, CountsTyped, HistoryTyped
<1>2. CASE UNCHANGED vars
  BY <1>2 DEF vars, TypeOK, Shape
<1>q. QED  BY <1>1, <1>2

-----------------------------------------------------------------------------
(* A step of one client leaves the calls of the others, but for the files a *)
(* commit moves under an upload's hands.                                    *)

LEMMA OneMoves ==
  ASSUME TypeOK, NEW c \in Clients, Step(c), ~Commit(c)
  PROVE  \A e \in Clients \ {c} : call'[e] = call[e]
<1>1. \E k : Goto(c, k)
  <2>1. CASE BeginPublish(c) \/ BeginSweep(c) \/ BeginDeleteRepository(c)
             \/ (\E v \in Versions : BeginDelete(c, v) \/ BeginDownload(c, v))
             \/ (\E d \in Digests : BeginUpload(c, d))
    BY <2>1 DEF BeginPublish, BeginSweep, BeginDeleteRepository, BeginDelete, BeginDownload, BeginUpload, Begin
  <2>2. CASE Publish(c)
    <3>1. PICK v \in call[c].todo : \/ Goto(c, Continue(c, call[c].todo \ {v}))
                                   \/ Goto(c, [call[c] EXCEPT !.pc = "rename", !.todo = call[c].todo \ {v},
                                                              !.v = v, !.payload = payloads + 1])
      BY <2>2 DEF Publish
    <3>q. QED  BY <3>1
  <2>3. CASE Refuse(c) \/ DropRepository(c) \/ Bump(c) \/ Stop(c)
    BY <2>3 DEF Refuse, DropRepository, Bump, Stop, Return
  <2>4. CASE Rename(c) \/ SweepNext(c) \/ Lookup(c) \/ Unlink(c) \/ UnlinkFails(c) \/ Drop(c)
    BY <2>4 DEF Rename, SweepNext, Lookup, Unlink, UnlinkFails, Drop
  <2>5. CASE Stage(c) \/ Write(c)
    BY <2>5 DEF Stage, Write
  <2>q. QED  BY <2>1, <2>2, <2>3, <2>4, <2>5 DEF Step
<1>q. QED  BY <1>1, OthersStay

LEMMA CommitMoves ==
  ASSUME TypeOK, NEW c \in Clients, Commit(c), NEW e \in Clients
  PROVE  \/ call'[e] = Idle
         \/ /\ call'[e].pc = call[e].pc /\ call'[e].v = call[e].v
            /\ call'[e].file = call[e].file /\ call'[e].payload = call[e].payload
<1>1. call[e] \in Call
  BY DEF TypeOK
<1>2. CASE Return(c)
  BY <1>2, OthersStay DEF Return
<1>3. CASE call'[e] = IF e = c THEN Idle ELSE Moved(call[e], call[c].digest)
  BY <1>1, <1>3 DEF Moved, Call
<1>q. QED  BY <1>2, <1>3 DEF Commit

-----------------------------------------------------------------------------
(* Blobs.                                                                   *)

BlobsInv == StagedIsWritten /\ HalfBlobsExplained /\ AcceptedStays

(* A step that touches no blob keeps the invariant, if the uploads that are *)
(* writing go on, or are recorded as torn.                                  *)
LEMMA BlobsStay ==
  ASSUME BlobsInv, UNCHANGED <<final, staging>>,
         \A d \in Digests : d \in torn => d \in torn',
         \A d \in accepted' : final[d] # "none",
         \A e \in Clients : Is(e, "write") => call'[e] = call[e] \/ call[e].digest \in torn'
  PROVE  BlobsInv'
  BY DEF BlobsInv, StagedIsWritten, HalfBlobsExplained, AcceptedStays, Is

LEMMA RegistryKeepsBlobs ==
  ASSUME TypeOK, BlobsInv, NEW c \in Clients, Step(c), ~(Stage(c) \/ Write(c) \/ Commit(c))
  PROVE  BlobsInv'
<1>0. \A e \in Clients \ {c} : call'[e] = call[e]
  BY OneMoves
<1>1. CASE Publish(c)
  <2>1. ~Is(c, "write") /\ UNCHANGED blobs
    BY <1>1 DEF Publish, Is
  <2>2. \A d \in Digests : d \in torn => d \in torn'
    <3>1. PICK v \in call[c].todo :
             UNCHANGED torn \/ (call[c].file # None /\ torn' = torn \ {<<v, call[c].file>>})
      BY <1>1 DEF Publish
    <3>2. v \in Versions /\ call[c].file \in Files \cup {None}
      BY DEF TypeOK, Call
    <3>q. QED  BY <3>1, <3>2, NamesAssumption
  <2>q. QED  BY <1>0, <2>1, <2>2, BlobsStay DEF blobs, BlobsInv, AcceptedStays
<1>2. CASE Stop(c)
  <2>1. UNCHANGED blobs /\ torn' = torn \cup Leftover(call[c])
    BY <1>2 DEF Stop
  <2>2. Is(c, "write") => call[c].digest \in torn'
    BY <2>1 DEF Is, Leftover
  <2>q. QED  BY <1>0, <2>1, <2>2, BlobsStay DEF blobs, BlobsInv, AcceptedStays
<1>3. ASSUME NEW d \in Digests, BeginUpload(c, d) PROVE BlobsInv'
  <2>1. ~Is(c, "write") /\ UNCHANGED <<final, staging, torn>>
    BY <1>3 DEF BeginUpload, Begin, Is, history
  <2>2. \A a \in accepted' : final[a] # "none"
    BY <1>3 DEF BeginUpload, Exists, BlobsInv, AcceptedStays
  <2>q. QED  BY <1>0, <2>1, <2>2, BlobsStay
<1>4. CASE BeginPublish(c) \/ BeginSweep(c) \/ BeginDeleteRepository(c)
           \/ (\E v \in Versions : BeginDelete(c, v) \/ BeginDownload(c, v))
  <2>1. ~Is(c, "write") /\ UNCHANGED <<blobs, torn>>
    BY <1>4 DEF BeginPublish, BeginSweep, BeginDeleteRepository, BeginDelete, BeginDownload, Begin, Is, history
  <2>q. QED  BY <1>0, <2>1, BlobsStay DEF blobs, BlobsInv, AcceptedStays
<1>5. CASE Refuse(c) \/ Rename(c) \/ SweepNext(c) \/ Lookup(c) \/ Unlink(c) \/ UnlinkFails(c) \/ Drop(c)
           \/ DropRepository(c) \/ Bump(c)
  <2>1. ~Is(c, "write") /\ UNCHANGED <<blobs, torn>>
    BY <1>5 DEF Refuse, Rename, SweepNext, Lookup, Unlink, UnlinkFails, Drop, DropRepository, Bump, Is, history
  <2>q. QED  BY <1>0, <2>1, BlobsStay DEF blobs, BlobsInv, AcceptedStays
<1>q. QED  BY <1>1, <1>2, <1>3, <1>4, <1>5 DEF Step

LEMMA StageKeepsBlobs ==
  ASSUME TypeOK, BlobsInv, NEW c \in Clients, Stage(c)
  PROVE  BlobsInv'
<1> DEFINE d == call[c].digest
<1>1. call[c] \in Call /\ d \in Digests
  BY DEF TypeOK, Stage, Is, Shape
<1>2. call'[c] = [call[c] EXCEPT !.pc = "write", !.at = "staging"] /\ UNCHANGED <<final, accepted, torn>>
  BY OthersStay DEF Stage, history
<1>3. call'[c].pc = "write" /\ call'[c].at = "staging" /\ call'[c].digest = d
  BY <1>1, <1>2 DEF Call
<1>4. \A e \in Clients : Is(e, "write") => call'[e] = call[e]
  BY OthersStay DEF Stage, Is
<1>5. \A x \in Digests \ {d} : staging'[x] = staging[x]
  BY DEF Stage, TypeOK
<1> HIDE DEF d
<1>6. StagedIsWritten'
  <2> SUFFICES ASSUME NEW x \in Digests, staging'[x] = "part"
               PROVE  \/ x \in torn'
                      \/ \E e \in Clients : Is(e, "write")' /\ call'[e].digest = x /\ call'[e].at = "staging"
    BY DEF StagedIsWritten
  <2>1. CASE x = d
    BY <1>3, <2>1 DEF Is
  <2>2. CASE x # d
    BY <1>2, <1>4, <1>5, <2>2 DEF BlobsInv, StagedIsWritten, Is
  <2>q. QED  BY <2>1, <2>2
<1>7. HalfBlobsExplained'
  BY <1>2, <1>4 DEF BlobsInv, HalfBlobsExplained, Is
<1>8. AcceptedStays'
  BY <1>2 DEF BlobsInv, AcceptedStays
<1>q. QED  BY <1>6, <1>7, <1>8 DEF BlobsInv

LEMMA WriteKeepsBlobs ==
  ASSUME TypeOK, BlobsInv, NEW c \in Clients, Write(c)
  PROVE  BlobsInv'
<1> DEFINE d == call[c].digest
<1>1. call[c] \in Call /\ d \in Digests /\ Is(c, "write")
  BY DEF TypeOK, Write, Is, Shape
<1>2. \A e \in Clients \ {c} : call'[e] = call[e]
  BY OthersStay DEF Write
<1>3. UNCHANGED <<accepted, torn>>
  BY DEF Write, history
<1>4. \A x \in Digests :
        /\ staging'[x] = IF call[c].at = "staging" /\ x = d THEN "whole" ELSE staging[x]
        /\ final'[x]   = IF call[c].at = "final"   /\ x = d THEN "whole" ELSE final[x]
  BY <1>1 DEF Write, Written, TypeOK
<1> HIDE DEF d
<1>5. StagedIsWritten'
  <2> SUFFICES ASSUME NEW x \in Digests, staging'[x] = "part"
               PROVE  \/ x \in torn'
                      \/ \E e \in Clients : Is(e, "write")' /\ call'[e].digest = x /\ call'[e].at = "staging"
    BY DEF StagedIsWritten
  <2>1. staging[x] = "part" /\ ~(call[c].at = "staging" /\ x = d)
    BY <1>4
  <2>2. x \in torn \/ \E e \in Clients \ {c} : Is(e, "write") /\ call[e].digest = x /\ call[e].at = "staging"
    BY <2>1 DEF BlobsInv, StagedIsWritten, d
  <2>q. QED  BY <1>2, <1>3, <2>2 DEF Is
<1>6. HalfBlobsExplained'
  <2> SUFFICES ASSUME NEW x \in Digests, final'[x] = "part"
               PROVE  \/ x \in torn'
                      \/ \E e \in Clients : Is(e, "write")' /\ call'[e].digest = x /\ call'[e].at = "final"
    BY DEF HalfBlobsExplained
  <2>1. final[x] = "part" /\ ~(call[c].at = "final" /\ x = d)
    BY <1>4
  <2>2. x \in torn \/ \E e \in Clients \ {c} : Is(e, "write") /\ call[e].digest = x /\ call[e].at = "final"
    BY <2>1 DEF BlobsInv, HalfBlobsExplained, d
  <2>q. QED  BY <1>2, <1>3, <2>2 DEF Is
<1>7. AcceptedStays'
  BY <1>3, <1>4 DEF BlobsInv, AcceptedStays, TypeOK
<1>q. QED  BY <1>5, <1>6, <1>7 DEF BlobsInv

(* A commit moves the name, and with it the files that are being written:   *)
(* who wrote the staging file then writes the blob.                         *)
LEMMA CommitKeepsBlobs ==
  ASSUME TypeOK, BlobsInv, NEW c \in Clients, Commit(c)
  PROVE  BlobsInv'
<1> DEFINE d == call[c].digest
<1>1. call[c] \in Call /\ d \in Digests /\ ~Is(c, "write") /\ UNCHANGED torn
  BY DEF TypeOK, Commit, Is, Shape, history
<1>2. CASE staging[d] = "none"
  <2>1. UNCHANGED blobs /\ Return(c)
    BY <1>2 DEF Commit
  <2>2. \A e \in Clients : Is(e, "write") => call'[e] = call[e]
    BY <1>1, <2>1, OthersStay DEF Return
  <2>q. QED  BY <1>1, <2>1, <2>2, BlobsStay DEF blobs, BlobsInv, AcceptedStays
<1>3. CASE staging[d] # "none"
  <2>1. /\ final' = [final EXCEPT ![d] = staging[d]]
        /\ staging' = [staging EXCEPT ![d] = "none"]
        /\ accepted' = accepted \cup {d}
        /\ call' = [e \in Clients |-> IF e = c THEN Idle ELSE Moved(call[e], d)]
    BY <1>3 DEF Commit
  <2>2. \A e \in Clients : Is(e, "write") /\ call[e].digest # d => call'[e] = call[e]
    BY <1>1, <2>1 DEF Moved, Is
  <2>3. \A e \in Clients : Is(e, "write") /\ call[e].digest = d /\ call[e].at = "staging" =>
          Is(e, "write")' /\ call'[e].digest = d /\ call'[e].at = "final"
    <3> TAKE e \in Clients
    <3> HAVE Is(e, "write") /\ call[e].digest = d /\ call[e].at = "staging"
    <3>1. call'[e] = [call[e] EXCEPT !.at = "final"]
      BY <1>1, <2>1 DEF Moved, Is
    <3>2. call[e] \in Call
      BY DEF TypeOK
    <3>q. QED  BY <3>1, <3>2 DEF Is, Call
  <2>4. /\ \A x \in Digests \ {d} : final'[x] = final[x] /\ staging'[x] = staging[x]
        /\ final'[d] = staging[d] /\ staging'[d] = "none"
    BY <1>1, <2>1 DEF TypeOK
  <2> HIDE DEF d
  <2>5. StagedIsWritten'
    BY <1>1, <2>2, <2>4 DEF BlobsInv, StagedIsWritten, Is
  <2>6. HalfBlobsExplained'
    <3> SUFFICES ASSUME NEW x \in Digests, final'[x] = "part"
                 PROVE  \/ x \in torn'
                        \/ \E e \in Clients : Is(e, "write")' /\ call'[e].digest = x /\ call'[e].at = "final"
      BY DEF HalfBlobsExplained
    <3>1. CASE x = d
      BY <1>1, <2>3, <2>4, <3>1 DEF BlobsInv, StagedIsWritten
    <3>2. CASE x # d
      BY <1>1, <2>2, <2>4, <3>2 DEF BlobsInv, HalfBlobsExplained, Is
    <3>q. QED  BY <3>1, <3>2
  <2>7. AcceptedStays'
    BY <1>3, <2>1, <2>4 DEF BlobsInv, AcceptedStays, TypeOK, d
  <2>q. QED  BY <2>5, <2>6, <2>7 DEF BlobsInv
<1>q. QED  BY <1>2, <1>3

LEMMA BlobsInvariant ==
  ASSUME TypeOK, BlobsInv, [Next]_vars
  PROVE  BlobsInv'
<1>1. ASSUME NEW c \in Clients, Step(c) PROVE BlobsInv'
  BY <1>1, RegistryKeepsBlobs, StageKeepsBlobs, WriteKeepsBlobs, CommitKeepsBlobs
<1>2. ASSUME NEW v \in Versions, NEW on \in BOOLEAN, Pin(v, on) PROVE BlobsInv'
  BY <1>2, BlobsStay DEF Pin, blobs, history, BlobsInv, AcceptedStays
<1>3. CASE UNCHANGED vars
  BY <1>3, BlobsStay DEF vars, BlobsInv, AcceptedStays
<1>q. QED  BY <1>1, <1>2, <1>3 DEF Next

-----------------------------------------------------------------------------
(* Assets.                                                                  *)

AssetsInv == RowShape /\ PendingIsListed /\ ListedIsStored

Drops(c, v, f) == Is(c, "drop") /\ call[c].v = v /\ call[c].file = f

LEMMA ContinueWaits ==
  ASSUME TypeOK, NEW c \in Clients, NEW S
  PROVE  Continue(c, S).pc \in {"idle", "publish"}
<1>1. call[c] \in Call
  BY DEF TypeOK
<1>q. QED  BY <1>1 DEF Continue, Idle, Call

(* The effect of a publish, field by field. *)
PublishEffect(c, v, f, n) ==
  /\ Is(c, "publish") /\ row'[v].stored
  /\ row'[v].files \in {Listing(NoFiles, f, n), Listing(row[v].files, f, n)}
  /\ \A u \in Versions \ {v} : row'[u] = row[u]
  /\ f = None => call'[c].pc # "rename" /\ UNCHANGED <<raced, torn>>
  /\ f # None => /\ call'[c].pc = "rename" /\ call'[c].v = v /\ call'[c].file = f /\ call'[c].payload = n
                 /\ raced' = IF \E e \in Clients \ {c} : Awaits(e, v, f)
                             THEN raced \cup {<<v, f>>} ELSE raced \ {<<v, f>>}
                 /\ torn' = torn \ {<<v, f>>}
  /\ reopened \subseteq reopened'
  /\ Stored(v) /\ row[v].immutable /\ v \notin reopened' =>
       ~Refused(v, f) /\ row'[v].immutable /\ row'[v].files = Listing(row[v].files, f, n)
  /\ disk' = disk

LEMMA PublishDoes ==
  ASSUME TypeOK, NEW c \in Clients, Publish(c)
  PROVE  \E v \in Versions, f \in Files \cup {None}, n \in Nat \ {0} : PublishEffect(c, v, f, n)
<1> DEFINE k == call[c]  f == k.file  n == payloads + 1
<1>0. k \in Call /\ payloads \in Nat
  BY BoundsAssumption DEF TypeOK, Payload
<1>1. PICK v \in k.todo, unread \in SUBSET {"immutable", "_files"} : PublishOf(c, v, unread)
  BY PublishIs
<1>2. v \in Versions /\ f \in Files \cup {None} /\ n \in Nat \ {0}
  <2>1. n \in Nat \ {0}
    BY <1>0
  <2>2. v \in Versions /\ f \in Files \cup {None}
    BY <1>0 DEF Call
  <2>q. QED  BY <2>1, <2>2
<1> DEFINE old == IF "_files" \in unread THEN NoFiles ELSE row[v].files
<1>3. row'[v].stored /\ row'[v].files = Listing(old, f, n) /\ row'[v].immutable = k.immutable
      /\ \A u \in Versions \ {v} : row'[u] = row[u]
  <2>1. PICK b \in 1..begun :
          row' = [row EXCEPT ![v] = [@ EXCEPT !.stored = TRUE, !.files = Listing(old, f, n),
                                              !.main = f, !.immutable = k.immutable, !.born = b]]
    BY <1>1 DEF PublishOf
  <2>2. row[v] \in Row /\ row \in [Versions -> Row]
    BY <1>2 DEF TypeOK
  <2> HIDE DEF k, f, n, old
  <2>3. row'[v] = [row[v] EXCEPT !.stored = TRUE, !.files = Listing(old, f, n),
                                 !.main = f, !.immutable = k.immutable, !.born = b]
    BY <2>1, <2>2, <1>2
  <2>4. \A u \in Versions \ {v} : row'[u] = row[u]
    BY <2>1, <2>2
  <2>q. QED  BY <2>2, <2>3, <2>4 DEF Row
<1>4. f = None => call'[c].pc # "rename"
  BY <1>1, <1>2, ContinueWaits, OthersStay DEF PublishOf
<1>5. f # None => /\ call'[c].pc = "rename" /\ call'[c].v = v /\ call'[c].file = f /\ call'[c].payload = n
  <2> SUFFICES ASSUME f # None
               PROVE  call'[c].pc = "rename" /\ call'[c].v = v /\ call'[c].file = f /\ call'[c].payload = n
    OBVIOUS
  <2>1. call'[c] = [k EXCEPT !.pc = "rename", !.todo = k.todo \ {v}, !.v = v, !.payload = n]
    BY <1>1, OthersStay DEF PublishOf
  <2>q. QED  BY <1>0, <2>1 DEF Call
<1>6. Is(c, "publish") /\ disk' = disk
  BY DEF Publish
<1>7. /\ reopened \subseteq reopened'
      /\ Stored(v) /\ row[v].immutable /\ v \notin reopened' =>
           ~Refused(v, f) /\ row'[v].immutable /\ row'[v].files = Listing(row[v].files, f, n)
  <2>1. reopened' = IF Stored(v) /\ row[v].immutable /\ (~k.immutable \/ unread # {})
                    THEN reopened \cup {v} ELSE reopened
    BY <1>1 DEF PublishOf
  <2>2. Refused(v, f) => "immutable" \in unread
    BY <1>1 DEF PublishOf
  <2>q. QED  BY <1>3, <2>1, <2>2
<1>8. f = None => UNCHANGED <<raced, torn>>
  BY <1>1 DEF PublishOf
<1>9. f # None => /\ raced' = IF \E e \in Clients \ {c} : Awaits(e, v, f)
                             THEN raced \cup {<<v, f>>} ELSE raced \ {<<v, f>>}
                 /\ torn' = torn \ {<<v, f>>}
  BY <1>1 DEF PublishOf
<1>10. row'[v].files \in {Listing(NoFiles, f, n), Listing(row[v].files, f, n)}
  BY <1>3
<1> HIDE DEF old
<1> HIDE DEF k, f, n
<1>11. PublishEffect(c, v, f, n)
  BY <1>3, <1>4, <1>5, <1>6, <1>7, <1>8, <1>9, <1>10 DEF PublishEffect
<1>q. QED  BY <1>2, <1>11

(* A step that changes no file and no listing keeps the invariant, if the   *)
(* pending halves stay pending, or are recorded as torn.                    *)
LEMMA AssetsStay ==
  ASSUME AssetsInv, disk' = disk, raced' = raced, torn \subseteq torn',
         \A v \in Versions : /\ row'[v].files = row[v].files /\ row'[v].stored = row[v].stored
                             /\ row'[v].immutable = row[v].immutable,
         \A e \in Clients, v \in Versions, f \in Files :
           Awaits(e, v, f)' => Awaits(e, v, f) /\ call'[e].payload = call[e].payload,
         \A e \in Clients, v \in Versions, f \in Files :
           Awaits(e, v, f) \/ Drops(e, v, f) => Awaits(e, v, f)' \/ Drops(e, v, f)' \/ <<v, f>> \in torn'
  PROVE  AssetsInv'
<1>1. RowShape'
  BY DEF AssetsInv, RowShape, Stored
<1>2. PendingIsListed'
  BY DEF AssetsInv, PendingIsListed, Listed, Stored
<1>3. ListedIsStored'
  <2> SUFFICES ASSUME NEW v \in Versions, NEW f \in Files, Listed(v, f)', disk'[v][f] # row'[v].files[f],
                      <<v, f>> \notin raced' \cup torn'
               PROVE  \E e \in Clients : Awaits(e, v, f)' \/ Drops(e, v, f)'
    BY DEF ListedIsStored, Drops
  <2>1. Listed(v, f) /\ disk[v][f] # row[v].files[f] /\ <<v, f>> \notin raced \cup torn
    BY DEF Listed, Stored
  <2>2. PICK e \in Clients : Awaits(e, v, f) \/ Drops(e, v, f)
    BY <2>1 DEF AssetsInv, ListedIsStored, Drops
  <2>q. QED  BY <2>2
<1>q. QED  BY <1>1, <1>2, <1>3 DEF AssetsInv

(* The steps of a client that is not between the halves of anything. *)
LEMMA QuietStepsKeepAssets ==
  ASSUME TypeOK, AssetsInv, NEW c \in Clients,
         \A e \in Clients \ {c} : call'[e] = call[e],
         call[c].pc \notin {"rename", "drop"}, call'[c].pc # "rename",
         disk' = disk, raced' = raced, torn' = torn,
         \A v \in Versions : /\ row'[v].files = row[v].files /\ row'[v].stored = row[v].stored
                             /\ row'[v].immutable = row[v].immutable
  PROVE  AssetsInv'
<1>1. \A e \in Clients, v \in Versions, f \in Files :
        Awaits(e, v, f)' => Awaits(e, v, f) /\ call'[e].payload = call[e].payload
  BY DEF Awaits, Is
<1>2. \A e \in Clients, v \in Versions, f \in Files :
        Awaits(e, v, f) \/ Drops(e, v, f) => Awaits(e, v, f)' \/ Drops(e, v, f)' \/ <<v, f>> \in torn'
  BY DEF Awaits, Drops, Is
<1>q. QED  BY <1>1, <1>2, AssetsStay

LEMMA PublishKeepsAssets ==
  ASSUME TypeOK, AssetsInv, NEW c \in Clients, Publish(c)
  PROVE  AssetsInv'
<1>1. PICK v \in Versions, f \in Files \cup {None}, n \in Nat \ {0} : PublishEffect(c, v, f, n)
  BY PublishDoes
<1>2. \A e \in Clients \ {c} : call'[e] = call[e]
  BY OneMoves, <1>1 DEF Step, Commit, Is, PublishEffect
<1>3. \A g \in Files : IF g = f THEN row'[v].files[g] = n ELSE row'[v].files[g] \in {0, row[v].files[g]}
  <2>1. row[v].files \in [Files -> Payload] /\ NoFiles = [g \in Files |-> 0]
    BY DEF TypeOK, Row, NoFiles
  <2>q. QED  BY <1>1, <2>1, NamesAssumption DEF Listing, PublishEffect
(* What is not the asset of this publish is as it was. *)
<1>4. \A u \in Versions, g \in Files : <<u, g>> # <<v, f>> /\ Listed(u, g)' =>
        Listed(u, g) /\ row'[u].files[g] = row[u].files[g]
  <2> TAKE u \in Versions, g \in Files
  <2> HAVE <<u, g>> # <<v, f>> /\ Listed(u, g)'
  <2>1. CASE u # v
    BY <1>1, <2>1 DEF Listed, Stored, PublishEffect
  <2>2. CASE u = v
    <3>1. row'[v].files[g] = row[v].files[g] /\ row[v].files[g] # 0
      BY <1>3, <2>2 DEF Listed
    <3>2. Stored(v)
      BY <3>1 DEF AssetsInv, RowShape, NoFiles
    <3>q. QED  BY <2>2, <3>1, <3>2 DEF Listed
  <2>q. QED  BY <2>1, <2>2
<1>5. \A u \in Versions, g \in Files : <<u, g>> # <<v, f>> =>
        /\ <<u, g>> \in raced' <=> <<u, g>> \in raced
        /\ <<u, g>> \in torn' <=> <<u, g>> \in torn
  <2>1. CASE f = None
    BY <1>1, <2>1 DEF PublishEffect
  <2>2. CASE f # None
    <3>1. torn' = torn \ {<<v, f>>}
      BY <1>1, <2>2 DEF PublishEffect
    <3>2. raced' = raced \cup {<<v, f>>} \/ raced' = raced \ {<<v, f>>}
      BY <1>1, <2>2 DEF PublishEffect
    <3>q. QED  BY <3>1, <3>2
  <2>q. QED  BY <2>1, <2>2
<1>6. RowShape'
  BY <1>1 DEF AssetsInv, RowShape, Stored, PublishEffect
<1>7. \A u \in Versions, g \in Files : Awaits(c, u, g)' => u = v /\ g = f /\ f # None
  BY <1>1 DEF Awaits, Is, PublishEffect
<1>8. PendingIsListed'
  <2> SUFFICES ASSUME NEW e \in Clients, NEW u \in Versions, NEW g \in Files, Awaits(e, u, g)'
               PROVE  /\ call'[e].payload # 0
                      /\ Listed(u, g)' => row'[u].files[g] = call'[e].payload \/ <<u, g>> \in raced'
    BY DEF PendingIsListed
  <2>1. CASE e = c
    BY <1>1, <1>3, <1>7, <2>1 DEF PublishEffect
  <2>2. CASE e # c
    <3>1. Awaits(e, u, g) /\ call'[e] = call[e]
      BY <1>2, <2>2 DEF Awaits, Is
    <3>2. CASE <<u, g>> = <<v, f>>
      BY <1>1, <2>2, <3>1, <3>2, NamesAssumption DEF AssetsInv, PendingIsListed, PublishEffect
    <3>3. CASE <<u, g>> # <<v, f>>
      BY <1>4, <1>5, <3>1, <3>3 DEF AssetsInv, PendingIsListed
    <3>q. QED  BY <3>2, <3>3
  <2>q. QED  BY <2>1, <2>2
<1>9. ListedIsStored'
  <2> SUFFICES ASSUME NEW u \in Versions, NEW g \in Files, Listed(u, g)', disk'[u][g] # row'[u].files[g],
                      <<u, g>> \notin raced' \cup torn'
               PROVE  \E e \in Clients : Awaits(e, u, g)' \/ Drops(e, u, g)'
    BY DEF ListedIsStored, Drops
  <2>1. CASE <<u, g>> = <<v, f>>
    <3>1. f # None /\ u = v /\ g = f
      BY <2>1, NamesAssumption
    <3>2. Awaits(c, u, g)'
      BY <1>1, <3>1 DEF PublishEffect, Awaits, Is
    <3>q. QED  BY <3>2
  <2>2. CASE <<u, g>> # <<v, f>>
    <3>1. PICK e \in Clients : Awaits(e, u, g) \/ Drops(e, u, g)
      BY <1>1, <1>4, <1>5, <2>2 DEF AssetsInv, ListedIsStored, Drops, PublishEffect
    <3>2. e # c
      BY <1>1, <3>1 DEF Awaits, Drops, Is, PublishEffect
    <3>q. QED  BY <1>2, <3>1, <3>2 DEF Awaits, Drops, Is
  <2>q. QED  BY <2>1, <2>2
<1>q. QED  BY <1>6, <1>8, <1>9 DEF AssetsInv

LEMMA RenameKeepsAssets ==
  ASSUME TypeOK, AssetsInv, NEW c \in Clients, Rename(c)
  PROVE  AssetsInv'
<1> DEFINE v == call[c].v  f == call[c].file
<1>1. v \in Versions /\ f \in Files /\ Awaits(c, v, f)
  BY DEF TypeOK, Rename, Is, Shape, Awaits
<1>2. \A e \in Clients \ {c} : call'[e] = call[e]
  BY OthersStay DEF Rename
<1>3. call'[c].pc \in {"idle", "publish"} /\ UNCHANGED <<row, raced, torn>>
  BY OthersStay, ContinueWaits DEF Rename, history
<1>4. \A u \in Versions, g \in Files :
        disk'[u][g] = IF u = v /\ g = f THEN call[c].payload ELSE disk[u][g]
  BY <1>1 DEF Rename, TypeOK
<1> HIDE DEF v, f
<1>5. RowShape'
  BY <1>3 DEF AssetsInv, RowShape, Stored
<1>6. PendingIsListed'
  BY <1>2, <1>3 DEF AssetsInv, PendingIsListed, Awaits, Is, Listed, Stored
<1>7. ListedIsStored'
  <2> SUFFICES ASSUME NEW u \in Versions, NEW g \in Files, Listed(u, g)', disk'[u][g] # row'[u].files[g],
                      <<u, g>> \notin raced' \cup torn'
               PROVE  \E e \in Clients : Awaits(e, u, g)' \/ Drops(e, u, g)'
    BY DEF ListedIsStored, Drops
  <2>0. Listed(u, g)
    BY <1>3 DEF Listed, Stored
  <2>1. CASE u = v /\ g = f
    BY <1>1, <1>3, <1>4, <2>0, <2>1 DEF AssetsInv, PendingIsListed
  <2>2. CASE ~(u = v /\ g = f)
    <3>1. PICK e \in Clients : Awaits(e, u, g) \/ Drops(e, u, g)
      BY <1>3, <1>4, <2>0, <2>2 DEF AssetsInv, ListedIsStored, Drops
    <3>2. e # c
      BY <1>1, <2>2, <3>1 DEF Awaits, Drops, Is
    <3>q. QED  BY <1>2, <3>1, <3>2 DEF Awaits, Drops, Is
  <2>q. QED  BY <2>1, <2>2
<1>q. QED  BY <1>5, <1>6, <1>7 DEF AssetsInv

LEMMA UnlinkKeepsAssets ==
  ASSUME TypeOK, AssetsInv, NEW c \in Clients, Unlink(c)
  PROVE  AssetsInv'
<1> DEFINE v == call[c].v  f == call[c].file
<1>1. v \in Versions /\ f \in Files /\ Is(c, "unlink") /\ call[c] \in Call
  BY DEF TypeOK, Unlink, Is, Shape
<1>2. \A e \in Clients \ {c} : call'[e] = call[e]
  BY OthersStay DEF Unlink
<1>3. /\ call'[c].pc = "drop" /\ call'[c].v = v /\ call'[c].file = f
      /\ UNCHANGED <<row, raced, torn>>
  <2>1. call'[c] = [call[c] EXCEPT !.pc = "drop"]
    BY OthersStay DEF Unlink
  <2>q. QED  BY <1>1, <2>1 DEF Call, Unlink, history
<1>4. \A u \in Versions, g \in Files : ~(u = v /\ g = f) => disk'[u][g] = disk[u][g]
  BY <1>1 DEF Unlink, TypeOK
<1> HIDE DEF v, f
<1>5. RowShape'
  BY <1>3 DEF AssetsInv, RowShape, Stored
<1>6. PendingIsListed'
  BY <1>2, <1>3 DEF AssetsInv, PendingIsListed, Awaits, Drops, Is, Listed, Stored
<1>7. ListedIsStored'
  <2> SUFFICES ASSUME NEW u \in Versions, NEW g \in Files, Listed(u, g)', disk'[u][g] # row'[u].files[g],
                      <<u, g>> \notin raced' \cup torn'
               PROVE  \E e \in Clients : Awaits(e, u, g)' \/ Drops(e, u, g)'
    BY DEF ListedIsStored, Drops
  <2>0. Listed(u, g)
    BY <1>3 DEF Listed, Stored
  <2>1. CASE u = v /\ g = f
    BY <1>3, <2>1 DEF Drops, Is
  <2>2. CASE ~(u = v /\ g = f)
    <3>1. PICK e \in Clients : Awaits(e, u, g) \/ Drops(e, u, g)
      BY <1>3, <1>4, <2>0, <2>2 DEF AssetsInv, ListedIsStored, Drops
    <3>2. e # c
      BY <1>1, <3>1 DEF Awaits, Drops, Is
    <3>q. QED  BY <1>2, <3>1, <3>2 DEF Awaits, Drops, Is
  <2>q. QED  BY <2>1, <2>2
<1>q. QED  BY <1>5, <1>6, <1>7 DEF AssetsInv

(* A version that is deleted lists nothing. *)
LEMMA DropKeepsAssets ==
  ASSUME TypeOK, AssetsInv, NEW c \in Clients, Drop(c) \/ BeginDeleteRepository(c)
  PROVE  AssetsInv'
<1>1. \A e \in Clients \ {c} : call'[e] = call[e]
  BY OthersStay DEF Drop, BeginDeleteRepository, Begin
<1>2. call'[c].pc \in {"idle", "sweep", "drop repository"} /\ UNCHANGED <<disk, raced, torn>>
  <2>1. \/ call'[c] = Idle
        \/ call'[c] = [Idle EXCEPT !.pc = "sweep", !.todo = call[c].todo]
        \/ call'[c] = [Idle EXCEPT !.pc = "drop repository"]
    BY OthersStay DEF Drop, BeginDeleteRepository, Begin
  <2>2. Idle.pc = "idle" /\ [Idle EXCEPT !.pc = "sweep", !.todo = call[c].todo].pc = "sweep"
        /\ [Idle EXCEPT !.pc = "drop repository"].pc = "drop repository"
    BY DEF Idle
  <2>3. UNCHANGED <<disk, raced, torn>>
    BY DEF Drop, BeginDeleteRepository
  <2>q. QED  BY <2>1, <2>2, <2>3
<1>3. \A v \in Versions : row'[v] = row[v] \/ row'[v] = NoRow(row[v].born)
  BY DEF Drop, BeginDeleteRepository, TypeOK
<1>4. \A v \in Versions, f \in Files :
        Listed(v, f)' => Listed(v, f) /\ row'[v] = row[v] /\ ~Drops(c, v, f)
  <2> TAKE v \in Versions, f \in Files
  <2> HAVE Listed(v, f)'
  <2>1. row'[v] # NoRow(row[v].born)
    BY DEF Listed, Stored, NoRow
  <2>2. ~Drops(c, v, f)
    BY <2>1 DEF Drop, Drops, Is, BeginDeleteRepository, Begin, TypeOK
  <2>q. QED  BY <1>3, <2>1, <2>2 DEF Listed, Stored
<1>5. RowShape'
  <2> SUFFICES ASSUME NEW v \in Versions PROVE ~row'[v].stored => row'[v].files = NoFiles /\ ~row'[v].immutable
    BY DEF RowShape, Stored, NoFiles
  <2>1. NoRow(row[v].born).files = NoFiles /\ NoRow(row[v].born).immutable = FALSE
    BY DEF NoRow
  <2>q. QED  BY <1>3, <2>1 DEF AssetsInv, RowShape, Stored
<1>6. \A e \in Clients, v \in Versions, f \in Files : Awaits(e, v, f)' => e # c /\ Awaits(e, v, f)
  BY <1>1, <1>2 DEF Awaits, Is
<1>7. PendingIsListed'
  BY <1>1, <1>2, <1>4, <1>6 DEF AssetsInv, PendingIsListed
<1>8. ListedIsStored'
  <2> SUFFICES ASSUME NEW u \in Versions, NEW g \in Files, Listed(u, g)', disk'[u][g] # row'[u].files[g],
                      <<u, g>> \notin raced' \cup torn'
               PROVE  \E e \in Clients : Awaits(e, u, g)' \/ Drops(e, u, g)'
    BY DEF ListedIsStored, Drops
  <2>1. PICK e \in Clients : Awaits(e, u, g) \/ Drops(e, u, g)
    BY <1>2, <1>4 DEF AssetsInv, ListedIsStored, Drops
  <2>2. e # c
    BY <1>4, <2>1 DEF Awaits, Is, Drop, BeginDeleteRepository, Begin
  <2>q. QED  BY <1>1, <2>1, <2>2 DEF Awaits, Drops, Is
<1>q. QED  BY <1>5, <1>7, <1>8 DEF AssetsInv

LEMMA StopKeepsAssets ==
  ASSUME TypeOK, AssetsInv, NEW c \in Clients, Stop(c)
  PROVE  AssetsInv'
<1>1. \A e \in Clients \ {c} : call'[e] = call[e]
  BY OthersStay DEF Stop, Return
<1>2. call'[c].pc = "idle"
  BY OthersStay DEF Stop, Return, Idle
<1>3. disk' = disk /\ row' = row /\ raced' = raced /\ torn' = torn \cup Leftover(call[c])
  BY DEF Stop, registry
<1>4. \A v \in Versions, f \in Files : Awaits(c, v, f) \/ Drops(c, v, f) => <<v, f>> \in torn'
  BY <1>3, NamesAssumption DEF Awaits, Drops, Is, Leftover
<1>5. \A e \in Clients, v \in Versions, f \in Files :
        Awaits(e, v, f)' => Awaits(e, v, f) /\ call'[e].payload = call[e].payload
  BY <1>1, <1>2 DEF Awaits, Is
<1>6. \A e \in Clients, v \in Versions, f \in Files :
        Awaits(e, v, f) \/ Drops(e, v, f) => Awaits(e, v, f)' \/ Drops(e, v, f)' \/ <<v, f>> \in torn'
  BY <1>1, <1>4 DEF Awaits, Drops, Is
<1>q. QED  BY <1>3, <1>5, <1>6, AssetsStay

LEMMA CommitKeepsAssets ==
  ASSUME TypeOK, AssetsInv, NEW c \in Clients, Commit(c)
  PROVE  AssetsInv'
<1>1. \A e \in Clients, v \in Versions, f \in Files :
        Awaits(e, v, f)' => Awaits(e, v, f) /\ call'[e].payload = call[e].payload
  BY CommitMoves DEF Awaits, Is, Idle
<1>2. \A e \in Clients : call[e].pc \in {"rename", "drop"} => call'[e] = call[e]
  <2>1. call' = [call EXCEPT ![c] = Idle] \/ call' = [e \in Clients |-> IF e = c THEN Idle ELSE Moved(call[e], call[c].digest)]
    BY DEF Commit, Return, Goto
  <2>q. QED  BY <2>1 DEF TypeOK, Commit, Is, Moved
<1>3. \A e \in Clients, v \in Versions, f \in Files :
        Awaits(e, v, f) \/ Drops(e, v, f) => Awaits(e, v, f)' \/ Drops(e, v, f)' \/ <<v, f>> \in torn'
  BY <1>2 DEF Awaits, Drops, Is
<1>4. UNCHANGED <<row, disk, raced, torn>>
  BY DEF Commit, registry, history
<1>q. QED  BY <1>1, <1>3, <1>4, AssetsStay

LEMMA OthersKeepAssets ==
  ASSUME TypeOK, AssetsInv, NEW c \in Clients, Step(c),
         ~(\/ Publish(c) \/ Rename(c) \/ Unlink(c) \/ Drop(c) \/ BeginDeleteRepository(c)
           \/ Commit(c) \/ Stop(c))
  PROVE  AssetsInv'
<1>0. \A e \in Clients \ {c} : call'[e] = call[e]
  BY OneMoves
<1>c. call[c] \in Call
  BY DEF TypeOK
<1>1. CASE BeginPublish(c) \/ BeginSweep(c) \/ (\E v \in Versions : BeginDelete(c, v) \/ BeginDownload(c, v))
           \/ (\E d \in Digests : BeginUpload(c, d))
  <2>1. Is(c, "idle") /\ UNCHANGED <<row, disk, raced, torn>>
    BY <1>1 DEF BeginPublish, BeginSweep, BeginDelete, BeginDownload, BeginUpload, Begin, registry, history
  <2>2. \E r : call'[c] = r /\ r.pc # "rename"
    <3>1. CASE BeginPublish(c)
      <4>1. PICK S, f, m : Begin(c, [Idle EXCEPT !.pc = "publish", !.todo = S, !.file = f, !.immutable = m])
        BY <3>1 DEF BeginPublish
      <4>2. [Idle EXCEPT !.pc = "publish", !.todo = S, !.file = f, !.immutable = m].pc = "publish"
        BY DEF Idle
      <4>q. QED  BY <4>1, <4>2, OthersStay DEF Begin
    <3>2. CASE BeginSweep(c)
      <4>1. PICK S : Begin(c, [Idle EXCEPT !.pc = "sweep", !.todo = S])
        BY <3>2 DEF BeginSweep
      <4>2. [Idle EXCEPT !.pc = "sweep", !.todo = S].pc = "sweep"
        BY DEF Idle
      <4>q. QED  BY <4>1, <4>2, OthersStay DEF Begin
    <3>3. ASSUME NEW v \in Versions, BeginDelete(c, v) \/ BeginDownload(c, v)
          PROVE  call'[c].pc # "rename"
      <4>1. [Idle EXCEPT !.pc = "lookup", !.v = v].pc = "lookup" /\ [Idle EXCEPT !.pc = "bump", !.v = v].pc = "bump"
        BY DEF Idle
      <4>q. QED  BY <3>3, <4>1, OthersStay DEF BeginDelete, BeginDownload, Begin
    <3>4. ASSUME NEW d \in Digests, BeginUpload(c, d)
          PROVE  call'[c].pc # "rename"
      <4>1. Idle.pc = "idle" /\ [Idle EXCEPT !.pc = "stage", !.digest = d].pc = "stage"
        BY DEF Idle
      <4>q. QED  BY <3>4, <4>1, OthersStay DEF BeginUpload, Begin
    <3>q. QED  BY <1>1, <3>1, <3>2, <3>3, <3>4
  <2>q. QED  BY <1>0, <2>1, <2>2, QuietStepsKeepAssets DEF Is
<1>2. CASE Refuse(c) \/ DropRepository(c)
  <2>1. call'[c].pc = "idle" /\ call[c].pc \in {"publish", "drop repository"}
    <3>1. call[c].pc \in {"publish", "drop repository"} /\ Return(c)
      BY <1>2 DEF Refuse, DropRepository, Is
    <3>2. call'[c] = Idle
      BY <3>1, OthersStay DEF Return
    <3>3. Idle.pc = "idle"
      BY DEF Idle
    <3>q. QED  BY <3>1, <3>2, <3>3
  <2>2. UNCHANGED <<row, disk, raced, torn>>
    BY <1>2 DEF Refuse, DropRepository, registry, history
  <2>q. QED  BY <1>0, <2>1, <2>2, QuietStepsKeepAssets
<1>3. CASE Bump(c)
  <2>1. call'[c].pc = "idle" /\ call[c].pc = "bump"
    BY <1>3, OthersStay DEF Bump, Return, Idle, Is
  <2>2. UNCHANGED <<disk, raced, torn>>
    BY <1>3 DEF Bump, history
  <2>3. \A u \in Versions : /\ row'[u].files = row[u].files /\ row'[u].stored = row[u].stored
                            /\ row'[u].immutable = row[u].immutable
    BY <1>3 DEF Bump, TypeOK, Row
  <2>q. QED  BY <1>0, <2>1, <2>2, <2>3, QuietStepsKeepAssets
<1>4. CASE SweepNext(c) \/ Lookup(c) \/ UnlinkFails(c)
  <2>1. call[c].pc \in {"sweep", "lookup", "unlink"} /\ UNCHANGED <<row, disk, raced, torn>>
    BY <1>4 DEF SweepNext, Lookup, UnlinkFails, Is, registry, history
  <2>2. call'[c].pc # "rename"
    <3>1. CASE SweepNext(c)
      <4>1. PICK v \in call[c].todo : call'[c] = [call[c] EXCEPT !.pc = "lookup", !.v = v, !.todo = call[c].todo \ {v}]
        BY <3>1, OthersStay DEF SweepNext
      <4>q. QED  BY <1>c, <4>1 DEF Call
    <3>2. CASE Lookup(c)
      <4>1. call'[c] = [call[c] EXCEPT !.pc = IF Target(call[c].v) = None THEN "drop" ELSE "unlink",
                                       !.file = Target(call[c].v)]
        BY <3>2, OthersStay DEF Lookup
      <4>q. QED  BY <1>c, <4>1 DEF Call
    <3>3. CASE UnlinkFails(c)
      <4>1. call'[c] = [call[c] EXCEPT !.pc = "drop", !.file = None]
        BY <3>3, OthersStay DEF UnlinkFails
      <4>q. QED  BY <1>c, <4>1 DEF Call
    <3>q. QED  BY <1>4, <3>1, <3>2, <3>3
  <2>q. QED  BY <1>0, <2>1, <2>2, QuietStepsKeepAssets
<1>5. CASE Stage(c) \/ Write(c)
  <2>1. call[c].pc \in {"stage", "write"} /\ UNCHANGED <<row, disk, raced, torn>>
    BY <1>5 DEF Stage, Write, Is, registry, history
  <2>2. call'[c].pc # "rename"
    <3>1. \/ call'[c] = [call[c] EXCEPT !.pc = "write", !.at = "staging"]
          \/ call'[c] = [call[c] EXCEPT !.pc = "commit"]
      BY <1>5, OthersStay DEF Stage, Write
    <3>q. QED  BY <1>c, <3>1 DEF Call
  <2>q. QED  BY <1>0, <2>1, <2>2, QuietStepsKeepAssets
<1>q. QED  BY <1>1, <1>2, <1>3, <1>4, <1>5 DEF Step

LEMMA PinKeepsAssets ==
  ASSUME TypeOK, AssetsInv, NEW u \in Versions, NEW on \in BOOLEAN, Pin(u, on)
  PROVE  AssetsInv'
<1>1. \A v \in Versions : /\ row'[v].files = row[v].files /\ row'[v].stored = row[v].stored
                          /\ row'[v].immutable = row[v].immutable
  BY DEF Pin, TypeOK, Row
<1>2. UNCHANGED <<disk, call, raced, torn>>
  BY DEF Pin, history
<1>q. QED  BY <1>1, <1>2, AssetsStay DEF Awaits, Drops, Is

LEMMA AssetsInvariant ==
  ASSUME TypeOK, AssetsInv, [Next]_vars
  PROVE  AssetsInv'
<1>1. ASSUME NEW c \in Clients, Step(c) PROVE AssetsInv'
  BY <1>1, PublishKeepsAssets, RenameKeepsAssets, UnlinkKeepsAssets, DropKeepsAssets, StopKeepsAssets,
     CommitKeepsAssets, OthersKeepAssets
<1>2. ASSUME NEW v \in Versions, NEW on \in BOOLEAN, Pin(v, on) PROVE AssetsInv'
  BY <1>2, PinKeepsAssets
<1>3. CASE UNCHANGED vars
  BY <1>3, AssetsStay DEF vars, Awaits, Drops, Is
<1>q. QED  BY <1>1, <1>2, <1>3 DEF Next

-----------------------------------------------------------------------------
(* Immutable versions.                                                      *)

SealedInv == SealedIsListed /\ ImmutableExplained

(* A step keeps what an immutable version lists, unless it makes the        *)
(* version mutable.                                                         *)
ListingsStay ==
  \A v \in Versions : row'[v].stored /\ v \notin reopened' =>
    /\ v \notin reopened
    /\ Stored(v) /\ row[v].immutable =>
         /\ row'[v].immutable
         /\ \A f \in Files : row[v].files[f] # 0 =>
              row'[v].files[f] = row[v].files[f] /\ (<<v, f>> \in raced => <<v, f>> \in raced')

(* Only a rename gives an asset other bytes. *)
FilesStay ==
  \A v \in Versions, f \in Files :
    \/ disk'[v][f] \in {0, disk[v][f]}
    \/ raced' = raced /\ \E c \in Clients : Awaits(c, v, f) /\ disk'[v][f] = call[c].payload

LEMMA SealedStays ==
  ASSUME TypeOK, PendingIsListed, SealedInv, Seal, ListingsStay, FilesStay
  PROVE  SealedInv'
<1>1. \A v \in Versions, f \in Files :
        \/ Seals(v, f)' /\ sealed'[v][f] = disk'[v][f]
        \/ ~row'[v].stored /\ sealed'[v][f] = 0
        \/ row'[v].stored /\ sealed'[v][f] = sealed[v][f]
  BY DEF Seal
<1>2. \A v \in Versions, f \in Files :
        row'[v].stored /\ sealed[v][f] # 0 /\ v \notin reopened' =>
          /\ v \notin reopened /\ Listed(v, f) /\ row[v].files[f] = sealed[v][f]
          /\ row'[v].immutable /\ row'[v].files[f] = sealed[v][f]
          /\ <<v, f>> \in raced => <<v, f>> \in raced'
  BY DEF SealedInv, SealedIsListed, ListingsStay, Listed, Stored
<1>3. SealedIsListed'
  <2> SUFFICES ASSUME NEW v \in Versions, NEW f \in Files, sealed'[v][f] # 0
               PROVE  /\ row'[v].stored
                      /\ v \notin reopened' => row'[v].immutable /\ row'[v].files[f] = sealed'[v][f]
    BY DEF SealedIsListed, Stored
  <2>1. CASE Seals(v, f)' /\ sealed'[v][f] = disk'[v][f]
    BY <2>1 DEF Seals, Listed, Stored
  <2>2. CASE row'[v].stored /\ sealed'[v][f] = sealed[v][f]
    BY <1>2, <2>2
  <2>q. QED  BY <1>1, <2>1, <2>2
<1>4. ImmutableExplained'
  <2> SUFFICES ASSUME NEW v \in Versions, NEW f \in Files,
                      sealed'[v][f] # 0, v \notin reopened', <<v, f>> \notin raced'
               PROVE  disk'[v][f] \in {0, sealed'[v][f]}
    BY DEF ImmutableExplained
  <2>1. CASE Seals(v, f)' /\ sealed'[v][f] = disk'[v][f]
    BY <2>1
  <2>2. CASE row'[v].stored /\ sealed'[v][f] = sealed[v][f]
    <3>1. /\ v \notin reopened /\ Listed(v, f) /\ row[v].files[f] = sealed[v][f]
          /\ <<v, f>> \notin raced
      BY <1>2, <2>2
    <3>2. disk[v][f] \in {0, sealed[v][f]}
      BY <2>2, <3>1 DEF SealedInv, ImmutableExplained
    <3>3. CASE disk'[v][f] \in {0, disk[v][f]}
      BY <2>2, <3>2, <3>3
    <3>4. ASSUME NEW c \in Clients, Awaits(c, v, f), disk'[v][f] = call[c].payload
          PROVE  disk'[v][f] = sealed[v][f]
      BY <3>1, <3>4 DEF PendingIsListed
    <3>q. QED  BY <2>2, <3>3, <3>4 DEF FilesStay
  <2>q. QED  BY <1>1, <2>1, <2>2
<1>q. QED  BY <1>3, <1>4 DEF SealedInv

LEMMA PublishKeepsListings ==
  ASSUME TypeOK, AssetsInv, NEW c \in Clients, Publish(c)
  PROVE  ListingsStay /\ FilesStay
<1>1. PICK v \in Versions, f \in Files \cup {None}, n \in Nat \ {0} : PublishEffect(c, v, f, n)
  BY PublishDoes
<1>2. \A u \in Versions \ {v}, g \in Files : <<u, g>> \in raced => <<u, g>> \in raced'
  <2>1. CASE f = None
    BY <1>1, <2>1 DEF PublishEffect
  <2>2. CASE f # None
    <3>1. raced' = raced \cup {<<v, f>>} \/ raced' = raced \ {<<v, f>>}
      BY <1>1, <2>2 DEF PublishEffect
    <3>q. QED  BY <3>1
  <2>q. QED  BY <2>1, <2>2
<1>3. ASSUME Stored(v), row[v].immutable, v \notin reopened', NEW g \in Files, row[v].files[g] # 0
      PROVE  row'[v].files[g] = row[v].files[g] /\ (<<v, g>> \in raced => <<v, g>> \in raced')
  <2>1. f # None /\ row[v].files[f] = 0
    BY <1>1, <1>3 DEF PublishEffect, Refused, AddsNewAsset
  <2>2. g # f
    BY <1>3, <2>1
  <2>3. row[v].files \in [Files -> Payload]
    BY DEF TypeOK, Row
  <2>4. row'[v].files[g] = row[v].files[g]
    BY <1>1, <1>3, <2>1, <2>2, <2>3 DEF PublishEffect, Listing
  <2>5. raced' = raced \cup {<<v, f>>} \/ raced' = raced \ {<<v, f>>}
    BY <1>1, <2>1 DEF PublishEffect
  <2>q. QED  BY <2>2, <2>4, <2>5
<1>4. ListingsStay
  <2> SUFFICES ASSUME NEW u \in Versions, row'[u].stored, u \notin reopened'
               PROVE  /\ u \notin reopened
                      /\ Stored(u) /\ row[u].immutable =>
                           /\ row'[u].immutable
                           /\ \A g \in Files : row[u].files[g] # 0 =>
                                row'[u].files[g] = row[u].files[g] /\ (<<u, g>> \in raced => <<u, g>> \in raced')
    BY DEF ListingsStay
  <2>1. u \notin reopened
    BY <1>1 DEF PublishEffect
  <2>2. CASE u = v
    <3>1. Stored(v) /\ row[v].immutable => row'[v].immutable
      BY <1>1, <2>2 DEF PublishEffect
    <3>q. QED  BY <1>3, <2>1, <2>2, <3>1
  <2>3. CASE u # v
    BY <1>1, <1>2, <2>1, <2>3 DEF PublishEffect
  <2>q. QED  BY <2>2, <2>3
<1>5. FilesStay
  BY <1>1 DEF PublishEffect, FilesStay
<1>q. QED  BY <1>4, <1>5

LEMMA OthersKeepListings ==
  ASSUME TypeOK, AssetsInv, NEW c \in Clients, Step(c), ~Publish(c)
  PROVE  ListingsStay /\ FilesStay
<1>1. CASE Drop(c) \/ BeginDeleteRepository(c)
  <2>1. \A v \in Versions : \/ row'[v] = row[v] /\ (v \in reopened' <=> v \in reopened)
                            \/ row'[v] = NoRow(row[v].born)
    BY <1>1 DEF Drop, BeginDeleteRepository, TypeOK
  <2>2. \A v \in Versions : NoRow(row[v].born).stored = FALSE
    BY DEF NoRow
  <2>3. UNCHANGED <<disk, raced>>
    BY <1>1 DEF Drop, BeginDeleteRepository
  <2>q. QED  BY <2>1, <2>2, <2>3 DEF ListingsStay, FilesStay
<1>2. CASE Bump(c)
  <2>1. \A u \in Versions : row'[u].files = row[u].files /\ row'[u].immutable = row[u].immutable
    BY <1>2 DEF Bump, TypeOK, Row
  <2>2. UNCHANGED <<disk, raced, reopened>>
    BY <1>2 DEF Bump, history
  <2>q. QED  BY <2>1, <2>2 DEF ListingsStay, FilesStay
<1>3. CASE Rename(c)
  <2>1. call[c].v \in Versions /\ call[c].file \in Files /\ Awaits(c, call[c].v, call[c].file)
    BY <1>3 DEF TypeOK, Rename, Is, Shape, Awaits
  <2>2. \A u \in Versions, g \in Files :
          disk'[u][g] = IF u = call[c].v /\ g = call[c].file THEN call[c].payload ELSE disk[u][g]
    BY <1>3, <2>1 DEF Rename, TypeOK
  <2>3. UNCHANGED <<row, raced, reopened>>
    BY <1>3 DEF Rename, history
  <2>q. QED  BY <2>1, <2>2, <2>3 DEF ListingsStay, FilesStay
<1>4. CASE Unlink(c)
  <2>1. \A u \in Versions, g \in Files : disk'[u][g] \in {0, disk[u][g]}
    BY <1>4 DEF Unlink, Is, Shape, TypeOK
  <2>2. UNCHANGED <<row, raced, reopened>>
    BY <1>4 DEF Unlink, history
  <2>q. QED  BY <2>1, <2>2 DEF ListingsStay, FilesStay
<1>5. CASE UNCHANGED <<row, disk, raced, reopened>>
  BY <1>5 DEF ListingsStay, FilesStay
<1>6. CASE \/ BeginPublish(c) \/ BeginSweep(c) \/ Refuse(c) \/ SweepNext(c) \/ Lookup(c) \/ UnlinkFails(c)
           \/ DropRepository(c) \/ Stage(c) \/ Write(c) \/ Commit(c) \/ Stop(c)
           \/ \E v \in Versions : BeginDelete(c, v) \/ BeginDownload(c, v)
           \/ \E d \in Digests : BeginUpload(c, d)
  <2>1. UNCHANGED <<row, disk, raced, reopened>>
    BY <1>6 DEF BeginPublish, BeginSweep, Refuse, SweepNext, Lookup, UnlinkFails, DropRepository, Stage, Write, Commit,
                Stop, BeginDelete, BeginDownload, BeginUpload, registry, history
  <2>q. QED  BY <1>5, <2>1
<1>q. QED  BY <1>1, <1>2, <1>3, <1>4, <1>6 DEF Step

LEMMA SealedInvariant ==
  ASSUME TypeOK, AssetsInv, SealedInv, [Next]_vars
  PROVE  SealedInv'
<1>1. CASE Next
  <2>1. ASSUME NEW v \in Versions, NEW on \in BOOLEAN, Pin(v, on)
        PROVE  ListingsStay /\ FilesStay
    <3>1. \A u \in Versions : row'[u].files = row[u].files /\ row'[u].immutable = row[u].immutable
      BY <2>1 DEF Pin, TypeOK, Row
    <3>2. UNCHANGED <<disk, raced, reopened>>
      BY <2>1 DEF Pin, history
    <3>q. QED  BY <3>1, <3>2 DEF ListingsStay, FilesStay
  <2>2. ListingsStay /\ FilesStay
    BY <1>1, <2>1, PublishKeepsListings, OthersKeepListings DEF Next
  <2>q. QED  BY <1>1, <2>2, SealedStays DEF Next, AssetsInv
<1>2. CASE UNCHANGED vars
  BY <1>2 DEF vars, SealedInv, SealedIsListed, ImmutableExplained, Stored
<1>q. QED  BY <1>1, <1>2

-----------------------------------------------------------------------------
LEMMA InitInv == Init => Inv
<1> SUFFICES ASSUME Init PROVE Inv
  OBVIOUS
<1>1. TypeOK
  <2>1. \A c \in Clients : call[c] \in Call /\ Shape(call[c])
    BY IdleIsACall DEF Init
  <2>2. call \in [Clients -> Call]
    BY IdleIsACall DEF Init
  <2>3. row \in [Versions -> Row] /\ disk \in [Versions -> [Files -> Payload]]
        /\ sealed \in [Versions -> [Files -> Payload]]
    BY EmptyRow DEF Init
  <2>4. BlobsTyped /\ repo \in BOOLEAN
    BY DEF Init, BlobsTyped, Content
  <2>5. CountsTyped
    BY BoundsAssumption DEF Init, CountsTyped, Payload
  <2>6. HistoryTyped
    BY DEF Init, HistoryTyped
  <2>q. QED  BY <2>1, <2>2, <2>3, <2>4, <2>5, <2>6, TypeParts DEF CallsTyped, StoreTyped
<1>2. RowShape
  <2>1. NoRow(0).files = NoFiles /\ NoRow(0).immutable = FALSE
    BY DEF NoRow
  <2>q. QED  BY <2>1 DEF Init, RowShape
<1>3. \A v \in Versions, f \in Files : ~Listed(v, f) /\ sealed[v][f] = 0
  BY DEF Init, Listed, Stored, NoRow, NoFiles
<1>4. \A c \in Clients : ~Is(c, "rename")
  BY DEF Init, Is, Idle
<1>5. PendingIsListed /\ ListedIsStored
  BY <1>3, <1>4 DEF PendingIsListed, ListedIsStored, Awaits
<1>6. SealedIsListed /\ ImmutableExplained
  BY <1>3 DEF SealedIsListed, ImmutableExplained
<1>7. StagedIsWritten /\ HalfBlobsExplained /\ AcceptedStays
  BY DEF Init, StagedIsWritten, HalfBlobsExplained, AcceptedStays
<1>q. QED  BY <1>1, <1>2, <1>5, <1>6, <1>7 DEF Inv

(* The inductive invariant holds in every reachable state, for any number   *)
(* of clients, versions, assets and blobs and any retention policy          *)
(* (pipelines.rs and package_registry.rs as PackageRegistry models them).   *)
THEOREM PackageInvariant == Spec => []Inv
<1>1. Inv /\ [Next]_vars => Inv'
  <2> SUFFICES ASSUME Inv, [Next]_vars PROVE Inv'
    OBVIOUS
  <2>1. TypeOK'
    BY TypeInvariant DEF Inv
  <2>2. AssetsInv'
    BY AssetsInvariant DEF Inv, AssetsInv
  <2>3. SealedInv'
    BY SealedInvariant DEF Inv, AssetsInv, SealedInv
  <2>4. BlobsInv'
    BY BlobsInvariant DEF Inv, BlobsInv
  <2>q. QED  BY <2>1, <2>2, <2>3, <2>4 DEF Inv, AssetsInv, SealedInv, BlobsInv
<1>q. QED  BY InitInv, <1>1, PTL DEF Spec

(* The tables, the files and the calls keep their types.                    *)
THEOREM PackageTypeCorrect == Spec => []TypeOK
<1>1. Inv => TypeOK
  BY DEF Inv
<1>q. QED  BY <1>1, PackageInvariant, PTL

(* Every asset a version lists is stored with the bytes it was listed for,  *)
(* but while a command is between the halves of changing it, after two      *)
(* publishes overlapped there or one was cut short                          *)
(* (publish_package_version_tx, delete_package_version).                    *)
THEOREM AssetsAreStored == Spec => []ListedIsStored
<1>1. Inv => ListedIsStored
  BY DEF Inv
<1>q. QED  BY <1>1, PackageInvariant, PTL

(* What an immutable version has served is replaced only by a publish that  *)
(* overlapped another between commit and rename, or after a publish made    *)
(* the version mutable again (publish_package_version_tx).                  *)
THEOREM ImmutableLossExplained == Spec => []ImmutableExplained
<1>1. Inv => ImmutableExplained
  BY DEF Inv
<1>q. QED  BY <1>1, PackageInvariant, PTL

(* A blob is half written only while another upload of its digest writes    *)
(* it, or after one was cut short there (store_blob).                       *)
THEOREM HalfBlobsAreExplained == Spec => []HalfBlobsExplained
<1>1. Inv => HalfBlobsExplained
  BY DEF Inv
<1>q. QED  BY <1>1, PackageInvariant, PTL

(* A blob whose upload was answered with success stays in the store, however*)
(* uploads of one digest share the staging file (store_blob).               *)
THEOREM AcceptedBlobsStay == Spec => []AcceptedStays
<1>1. Inv => AcceptedStays
  BY DEF Inv
<1>q. QED  BY <1>1, PackageInvariant, PTL

-----------------------------------------------------------------------------
(* Retention.  What a sweep listed stays outdated, because the versions     *)
(* published after it only become more, until it is published again itself. *)

Ever == {v \in Versions : row[v].born # 0}
Old(v) == row[v].born # 0 /\ Outdated(v)
Excused(v) == v \in byHand \cup relisted

Retention ==
    /\ IsFiniteSet(Ever)
    /\ \A v \in Versions : Stored(v) => row[v].born # 0
    /\ SweepsKeepNewest /\ DoomedExplained

(* a version that a deletion of this call is meant for *)
Meant(k, v) == k.pc \in Sweeping /\ (v \in k.todo \/ k.v = v)

LEMMA BornIsANumber ==
  ASSUME TypeOK, NEW v \in Versions
  PROVE  row[v].born \in Nat
BY DEF TypeOK, Row

LEMMA OldStays ==
  ASSUME TypeOK, TypeOK', IsFiniteSet(Ever'), \A u \in Ever : row'[u].born >= row[u].born,
         NEW v \in Versions, row'[v].born = row[v].born, Old(v)
  PROVE  Old(v)'
<1> DEFINE A == PublishedAfter(v)  B == PublishedAfter(v)'
<1>1. row'[v].born = row[v].born /\ row[v].born # 0  BY DEF Old
<1>2. \A u \in A : u \in Ever /\ u \in Versions /\ row'[u].born >= row[u].born
  BY DEF Ever, PublishedAfter
<1>3. \A u \in Versions : row[u].born \in Nat /\ row'[u].born \in Nat
  BY DEF TypeOK, Row
<1>4. ASSUME NEW u \in A  PROVE u \in B
  <2>1. u \in Versions /\ row[u].born # 0 /\ row'[u].born >= row[u].born /\ Newer(u, v)
    BY <1>2, <1>4 DEF PublishedAfter
  <2>2. row[u].born \in Nat /\ row'[u].born \in Nat /\ row[v].born \in Nat /\ u \in Nat /\ v \in Nat
    BY <1>3, <2>1, NamesAssumption
  <2>q. QED  BY <1>1, <2>1, <2>2 DEF PublishedAfter, Newer
<1>5. B \subseteq Ever'  BY DEF PublishedAfter, Ever
<1>6. IsFiniteSet(B)  BY <1>5, FS_Subset
<1>7. Cardinality(A) >= Keep  BY DEF Old, Outdated
<1>8. A \subseteq B  BY <1>4
<1> HIDE DEF A, B
<1>9. IsFiniteSet(A) /\ Cardinality(A) <= Cardinality(B) /\ Cardinality(B) \in Nat
  BY <1>6, <1>8, FS_Subset, FS_CardinalityType
<1>10. Cardinality(A) \in Nat  BY <1>9, FS_CardinalityType
<1>11. Cardinality(B) >= Keep  BY <1>7, <1>9, <1>10, PolicyAssumption
<1>q. QED  BY <1>1, <1>11 DEF Old, Outdated, B

LEMMA CandidateIsOld ==
  ASSUME TypeOK, Retention, NEW v \in Versions, Candidate(v)
  PROVE  Old(v) /\ Stored(v)
<1> DEFINE A == {u \in Versions : Stored(u) /\ ~row[u].pinned /\ Newer(u, v)}
           B == PublishedAfter(v)
<1>1. A \subseteq B  BY DEF PublishedAfter, Retention
<1>2. B \subseteq Ever /\ IsFiniteSet(Ever)  BY DEF PublishedAfter, Ever, Retention
<1>3. IsFiniteSet(B)  BY <1>2, FS_Subset
<1>4. Cardinality(A) >= Keep /\ row[v].born # 0 /\ Stored(v)  BY DEF Candidate, Retention
<1> HIDE DEF A, B
<1>5. Cardinality(A) \in Nat /\ Cardinality(B) \in Nat /\ Cardinality(A) <= Cardinality(B)
  BY <1>1, <1>3, FS_Subset, FS_CardinalityType
<1>6. Cardinality(B) >= Keep  BY <1>4, <1>5, PolicyAssumption
<1>q. QED  BY <1>4, <1>6 DEF Old, Outdated, B

(* What a step may do to a version: keep its place among the others, and    *)
(* take its row only if it is outdated or excused ... *)
Kept(v) ==
    /\ row'[v].born = row[v].born
    /\ Stored(v)' => Stored(v)
    /\ Excused(v) => Excused(v)'
    /\ Stored(v) => Stored(v)' \/ Old(v) \/ Excused(v)'

(* ... or publish it, which forgets the excuses that are over. *)
Published(v) ==
    /\ ~Stored(v) /\ Stored(v)'
    /\ row'[v].born >= row[v].born /\ row'[v].born # 0
    /\ Doomed(v) => Excused(v)'

RowsStep == \E w : \A v \in Versions : Kept(v) \/ (v = w /\ Published(v))

LEMMA RowsStay ==
  ASSUME \A v \in Versions : row'[v].stored = row[v].stored /\ row'[v].born = row[v].born,
         byHand \subseteq byHand', relisted \subseteq relisted'
  PROVE  RowsStep
BY DEF RowsStep, Kept, Stored, Excused

LEMMA PublishRows ==
  ASSUME TypeOK, Retention, NEW c \in Clients, Publish(c)
  PROVE  RowsStep
<1>0. call[c] \in Call  BY DEF TypeOK
<1> DEFINE f == call[c].file  n == payloads + 1
<1>1. PICK v \in call[c].todo, unread \in SUBSET {"immutable", "_files"} : PublishOf(c, v, unread)
  BY PublishIs
<1> DEFINE old == IF "_files" \in unread THEN NoFiles ELSE row[v].files
<1>2. PICK b \in 1..begun :
        /\ IF Stored(v) THEN b = row[v].born ELSE \A u \in Versions : row[u].born <= b
        /\ row' = [row EXCEPT ![v] = [@ EXCEPT !.stored = TRUE, !.files = Listing(old, f, n),
                                               !.main = f, !.immutable = call[c].immutable, !.born = b]]
  BY <1>1 DEF PublishOf
<1>3. IF Stored(v) THEN UNCHANGED <<byHand, relisted>>
      ELSE /\ byHand' = byHand \ {v}
           /\ relisted' = IF Doomed(v) THEN relisted \cup {v} ELSE relisted \ {v}
  BY <1>1 DEF PublishOf
<1> HIDE DEF f, n, old
<1>4. v \in Versions /\ row \in [Versions -> Row] /\ begun \in Nat
  <2>1. call[c].todo \subseteq Versions  BY <1>0 DEF Call
  <2>2. row \in [Versions -> Row] /\ begun \in Nat  BY BoundsAssumption DEF TypeOK
  <2>q. QED  BY <1>1, <2>1, <2>2
<1>5. row[v] \in Row  BY <1>4
<1>6. PICK x : x = [row[v] EXCEPT !.stored = TRUE, !.files = Listing(old, f, n),
                                  !.main = f, !.immutable = call[c].immutable, !.born = b]
  OBVIOUS
<1>7. x.stored = TRUE /\ x.born = b  BY <1>5, <1>6 DEF Row
<1>8. row'[v] = x /\ \A u \in Versions \ {v} : row'[u] = row[u]  BY <1>2, <1>4, <1>6
<1>9. ASSUME NEW u \in Versions \ {v}  PROVE Kept(u)
  <2>1. Excused(u) => Excused(u)'  BY <1>3 DEF Excused
  <2>q. QED  BY <1>8, <2>1 DEF Kept, Stored
<1>10. CASE Stored(v)
  <2>1. Excused(v) => Excused(v)'  BY <1>3, <1>10 DEF Excused
  <2>2. Kept(v)  BY <1>2, <1>7, <1>8, <1>10, <2>1 DEF Kept, Stored
  <2>q. QED  BY <1>9, <2>2 DEF RowsStep
<1>11. CASE ~Stored(v)
  <2>1. b # 0 /\ b \in Nat  BY <1>4
  <2>2. b >= row[v].born  BY <1>2, <1>4, <1>11, <2>1, BornIsANumber
  <2>3. Doomed(v) => Excused(v)'  BY <1>3, <1>11 DEF Excused
  <2>4. Published(v)  BY <1>7, <1>8, <1>11, <2>1, <2>2, <2>3 DEF Published, Stored
  <2>q. QED  BY <1>9, <2>4 DEF RowsStep
<1>q. QED  BY <1>10, <1>11

LEMMA DropRows ==
  ASSUME TypeOK, Retention, NEW c \in Clients, Drop(c)
  PROVE  RowsStep
<1>1. PICK v : v = call[c].v  OBVIOUS
<1>2. v \in Versions /\ row \in [Versions -> Row]
  BY <1>1 DEF Drop, Is, TypeOK, Shape
<1>3. Old(v) \/ Excused(v)
  <2>1. Doomed(v)  BY <1>1 DEF Drop, Is, Doomed, Sweeping
  <2>q. QED  BY <1>2, <2>1 DEF Retention, DoomedExplained, Old, Excused
<1>4. row' = [row EXCEPT ![v] = NoRow(row[v].born)] /\ UNCHANGED <<byHand, relisted>>
  BY <1>1 DEF Drop
<1>5. /\ row'[v].born = row[v].born /\ ~row'[v].stored
      /\ \A u \in Versions \ {v} : row'[u] = row[u]
  BY <1>2, <1>4 DEF NoRow
<1>q. QED  BY <1>3, <1>4, <1>5 DEF RowsStep, Kept, Stored, Excused

LEMMA DeleteRepositoryRows ==
  ASSUME TypeOK, NEW c \in Clients, BeginDeleteRepository(c)
  PROVE  RowsStep
<1>1. \A v \in Versions : row'[v].born = row[v].born /\ ~row'[v].stored
  BY DEF BeginDeleteRepository, NoRow
<1>2. byHand' = byHand \cup {v \in Versions : Stored(v)} /\ relisted' = relisted
  BY DEF BeginDeleteRepository
<1>q. QED  BY <1>1, <1>2 DEF RowsStep, Kept, Stored, Excused

LEMMA BumpRows ==
  ASSUME TypeOK, Retention, NEW c \in Clients, Bump(c)
  PROVE  RowsStep
<1>1. PICK v : v = call[c].v  OBVIOUS
<1>2. v \in Versions /\ row \in [Versions -> Row]  BY <1>1 DEF Bump, Is, TypeOK, Shape
<1>3. row' = [row EXCEPT ![v] = [@ EXCEPT !.downloaded = Stored(v)]] /\ UNCHANGED <<byHand, relisted>>
  BY <1>1 DEF Bump, history
<1>4. row[v] \in Row  BY <1>2
<1>5. PICK x : x = [row[v] EXCEPT !.downloaded = Stored(v)]  OBVIOUS
<1>6. x.stored = row[v].stored /\ x.born = row[v].born  BY <1>4, <1>5 DEF Row
<1>7. row'[v] = x /\ \A u \in Versions \ {v} : row'[u] = row[u]  BY <1>2, <1>3, <1>5
<1>q. QED  BY <1>3, <1>6, <1>7, RowsStay

LEMMA NextRows ==
  ASSUME TypeOK, Retention, Next
  PROVE  RowsStep
<1>1. ASSUME NEW c \in Clients, Step(c), ~Publish(c), ~Drop(c), ~BeginDeleteRepository(c)
      PROVE  RowsStep
  <2>1. byHand \subseteq byHand' /\ relisted' = relisted /\ (UNCHANGED row \/ Bump(c))
    BY <1>1 DEF Step, BeginPublish, Refuse, Rename, BeginSweep, SweepNext, Lookup, Unlink,
       UnlinkFails, DropRepository, Bump, Stage, Write, Commit, Stop, BeginDelete, BeginDownload,
       BeginUpload, registry, history
  <2>q. QED  BY <2>1, BumpRows, RowsStay
<1>2. ASSUME NEW v \in Versions, NEW on \in BOOLEAN, Pin(v, on)  PROVE RowsStep
  <2>1. row' = [row EXCEPT ![v] = [@ EXCEPT !.pinned = on]] /\ UNCHANGED <<byHand, relisted>>
    BY <1>2 DEF Pin, history
  <2>2. row[v] \in Row /\ row \in [Versions -> Row]  BY DEF TypeOK
  <2>3. PICK x : x = [row[v] EXCEPT !.pinned = on]  OBVIOUS
  <2>4. x.stored = row[v].stored /\ x.born = row[v].born  BY <2>2, <2>3 DEF Row
  <2>5. row'[v] = x /\ \A u \in Versions \ {v} : row'[u] = row[u]  BY <2>1, <2>2, <2>3
  <2>q. QED  BY <2>1, <2>4, <2>5, RowsStay
<1>q. QED  BY <1>1, <1>2, PublishRows, DropRows, DeleteRepositoryRows DEF Next

(* A call means to delete what it meant before, what its sweep has just     *)
(* listed, or what a person named. *)
Means(r, k, v) == Meant(r, v) => Meant(k, v) \/ Candidate(v) \/ v \in byHand'

LEMMA ElsewhereMeansNothing ==
  ASSUME NEW r, NEW k, NEW v, r.pc \notin Sweeping
  PROVE  Means(r, k, v)
BY DEF Means, Meant

LEMMA BeginsMean ==
  ASSUME TypeOK, NEW c \in Clients, NEW v \in Versions,
         \/ BeginPublish(c) \/ BeginSweep(c) \/ BeginDeleteRepository(c)
         \/ \E u \in Versions : BeginDelete(c, u) \/ BeginDownload(c, u)
         \/ \E d \in Digests : BeginUpload(c, d)
  PROVE  \E r : Goto(c, r) /\ Means(r, call[c], v)
<1>1. CASE BeginPublish(c)
  <2>1. PICK S, f, imm : Begin(c, [Idle EXCEPT !.pc = "publish", !.todo = S, !.file = f, !.immutable = imm])
    BY <1>1 DEF BeginPublish
  <2>2. PICK r : r = [Idle EXCEPT !.pc = "publish", !.todo = S, !.file = f, !.immutable = imm]  OBVIOUS
  <2>3. r.pc = "publish"  BY <2>2 DEF Idle
  <2>q. QED  BY <2>1, <2>2, <2>3, ElsewhereMeansNothing DEF Begin, Sweeping
<1>2. CASE BeginSweep(c)
  <2>1. PICK S \in SUBSET Versions :
           S = {u \in Versions : Candidate(u)} /\ Begin(c, [Idle EXCEPT !.pc = "sweep", !.todo = S])
    BY <1>2 DEF BeginSweep
  <2>2. PICK r : r = [Idle EXCEPT !.pc = "sweep", !.todo = S]  OBVIOUS
  <2>3. r.todo = S /\ r.v = None  BY <2>2 DEF Idle
  <2>4. Means(r, call[c], v)  BY <2>1, <2>3, NamesAssumption DEF Means, Meant
  <2>q. QED  BY <2>1, <2>2, <2>4 DEF Begin
<1>3. CASE BeginDeleteRepository(c)
  <2>1. PICK r : r = [Idle EXCEPT !.pc = "drop repository"]  OBVIOUS
  <2>2. r.pc = "drop repository" /\ Goto(c, r)  BY <1>3, <2>1 DEF Idle, BeginDeleteRepository, Begin
  <2>q. QED  BY <2>2, ElsewhereMeansNothing DEF Sweeping
<1>6. ASSUME NEW u \in Versions, BeginDelete(c, u)
      PROVE  \E r : Goto(c, r) /\ Means(r, call[c], v)
  <2>1. PICK r : r = [Idle EXCEPT !.pc = "lookup", !.v = u]  OBVIOUS
  <2>2. r.todo = {} /\ r.v = u /\ Goto(c, r) /\ u \in byHand'
    BY <1>6, <2>1 DEF Idle, BeginDelete, Begin
  <2>3. Means(r, call[c], v)  BY <2>2 DEF Means, Meant
  <2>q. QED  BY <2>2, <2>3
<1>4. ASSUME NEW u \in Versions, BeginDownload(c, u)
      PROVE  \E r : Goto(c, r) /\ Means(r, call[c], v)
  <2>1. PICK r : r = [Idle EXCEPT !.pc = "bump", !.v = u]  OBVIOUS
  <2>2. r.pc = "bump" /\ Goto(c, r)  BY <1>4, <2>1 DEF Idle, BeginDownload, Begin
  <2>q. QED  BY <2>2, ElsewhereMeansNothing DEF Sweeping
<1>5. ASSUME NEW d \in Digests, BeginUpload(c, d)
      PROVE  \E r : Goto(c, r) /\ Means(r, call[c], v)
  <2>1. PICK r : r = [Idle EXCEPT !.pc = "stage", !.digest = d]  OBVIOUS
  <2>2. Idle.pc = "idle" /\ r.pc = "stage"  BY <2>1 DEF Idle
  <2>3. Goto(c, Idle) \/ Goto(c, r)  BY <1>5, <2>1 DEF BeginUpload, Begin
  <2>q. QED  BY <2>2, <2>3, ElsewhereMeansNothing DEF Sweeping
<1>q. QED  BY <1>1, <1>2, <1>3, <1>4, <1>5, <1>6

LEMMA StepsMean ==
  ASSUME TypeOK, NEW c \in Clients, NEW v \in Versions, Step(c), ~Commit(c)
  PROVE  \E r : Goto(c, r) /\ Means(r, call[c], v)
<1>1. PICK k : k = call[c]  OBVIOUS
<1>2. k \in Call  BY <1>1 DEF TypeOK
<1>3. Means(Idle, k, v)  BY ElsewhereMeansNothing DEF Idle, Sweeping
<1>4. CASE Publish(c)
  <2>1. PICK S, u, n : \/ Goto(c, Continue(c, S))
                       \/ Goto(c, [k EXCEPT !.pc = "rename", !.todo = S, !.v = u, !.payload = n])
    BY <1>1, <1>4 DEF Publish
  <2>2. PICK r, q : r = Continue(c, S) /\ q = [k EXCEPT !.pc = "rename", !.todo = S, !.v = u, !.payload = n]
    OBVIOUS
  <2>3. r.pc \in {"idle", "publish"}  BY <2>2, ContinueWaits
  <2>4. q.pc = "rename"  BY <1>2, <2>2 DEF Call
  <2>q. QED  BY <2>1, <2>2, <2>3, <2>4, ElsewhereMeansNothing DEF Sweeping
<1>5. CASE Rename(c)
  <2>1. PICK r : r = Continue(c, k.todo)  OBVIOUS
  <2>2. Goto(c, r) /\ r.pc \in {"idle", "publish"}
    BY <1>1, <1>5, <2>1, ContinueWaits DEF Rename
  <2>q. QED  BY <2>2, ElsewhereMeansNothing DEF Sweeping
<1>6. CASE Refuse(c) \/ DropRepository(c) \/ Bump(c) \/ Stop(c)
  BY <1>1, <1>3, <1>6 DEF Refuse, DropRepository, Bump, Stop, Return
<1>7. CASE SweepNext(c)
  <2>1. PICK u \in k.todo : Goto(c, [k EXCEPT !.pc = "lookup", !.v = u, !.todo = k.todo \ {u}])
    BY <1>1, <1>7 DEF SweepNext
  <2>2. PICK r : r = [k EXCEPT !.pc = "lookup", !.v = u, !.todo = k.todo \ {u}]  OBVIOUS
  <2>3. r.todo \subseteq k.todo /\ r.v \in k.todo /\ k.pc = "sweep"
    BY <1>1, <1>2, <1>7, <2>2 DEF Call, SweepNext, Is
  <2>4. Means(r, k, v)  BY <2>3 DEF Means, Meant, Sweeping
  <2>q. QED  BY <1>1, <2>1, <2>2, <2>4
<1>8. CASE Lookup(c) \/ Unlink(c) \/ UnlinkFails(c)
  <2>1. \E l, f : Goto(c, [k EXCEPT !.pc = l, !.file = f])
    <3>1. CASE Unlink(c)
      <4>1. [k EXCEPT !.pc = "drop"] = [k EXCEPT !.pc = "drop", !.file = k.file]  BY <1>2 DEF Call
      <4>2. Goto(c, [k EXCEPT !.pc = "drop"])  BY <1>1, <3>1 DEF Unlink
      <4>q. QED  BY <4>1, <4>2
    <3>q. QED  BY <1>1, <1>8, <3>1 DEF Lookup, UnlinkFails
  <2>2. PICK l, f : Goto(c, [k EXCEPT !.pc = l, !.file = f])  BY <2>1
  <2>3. PICK r : r = [k EXCEPT !.pc = l, !.file = f]  OBVIOUS
  <2>4. r.todo = k.todo /\ r.v = k.v  BY <1>2, <2>3 DEF Call
  <2>5. k.pc \in Sweeping  BY <1>1, <1>8 DEF Lookup, Unlink, UnlinkFails, Is, Sweeping
  <2>6. Means(r, k, v)  BY <2>4, <2>5 DEF Means, Meant
  <2>q. QED  BY <1>1, <2>2, <2>3, <2>6
<1>9. CASE Drop(c)
  <2>1. PICK r : r = [Idle EXCEPT !.pc = "sweep", !.todo = k.todo]  OBVIOUS
  <2>2. r.todo = k.todo /\ r.v = None  BY <2>1 DEF Idle
  <2>3. Goto(c, Idle) \/ Goto(c, r)  BY <1>1, <1>9, <2>1 DEF Drop
  <2>4. k.pc \in Sweeping  BY <1>1, <1>9 DEF Drop, Is, Sweeping
  <2>5. Means(r, k, v)  BY <2>2, <2>4, NamesAssumption DEF Means, Meant
  <2>q. QED  BY <1>1, <1>3, <2>3, <2>5
<1>10. CASE Stage(c) \/ Write(c)
  <2>1. PICK r, q : r = [k EXCEPT !.pc = "write", !.at = "staging"] /\ q = [k EXCEPT !.pc = "commit"]
    OBVIOUS
  <2>2. r.pc = "write" /\ q.pc = "commit"  BY <1>2, <2>1 DEF Call
  <2>3. Goto(c, r) \/ Goto(c, q)  BY <1>1, <1>10, <2>1 DEF Stage, Write
  <2>q. QED  BY <2>2, <2>3, ElsewhereMeansNothing DEF Sweeping
<1>q. QED  BY <1>4, <1>5, <1>6, <1>7, <1>8, <1>9, <1>10, BeginsMean DEF Step

LEMMA NextMeans ==
  ASSUME TypeOK, Next, NEW e \in Clients, NEW v \in Versions
  PROVE  Means(call'[e], call[e], v)
<1>1. PICK k : k = call[e]  OBVIOUS
<1>2. k \in Call  BY <1>1 DEF TypeOK
<1>3. CASE call'[e] = k  BY <1>1, <1>3 DEF Means
<1>4. CASE \E c \in Clients : Step(c)
  <2>1. PICK c \in Clients : Step(c)  BY <1>4
  <2>2. CASE Commit(c)
    <3>1. call'[e] = Idle \/ (call'[e].pc = k.pc /\ (k.pc # "write" => call'[e] = k))
      <4>1. CASE Return(c)
        <5>1. e # c => call'[e] = k  BY <1>1, <4>1, OthersStay DEF Return
        <5>2. e = c => call'[e] = Idle  BY <4>1, OthersStay DEF Return
        <5>q. QED  BY <5>1, <5>2
      <4>2. CASE call'[e] = Idle \/ call'[e] = Moved(k, call[c].digest)
        <5>1. k.pc # "write" => Moved(k, call[c].digest) = k  BY DEF Moved
        <5>2. Moved(k, call[c].digest).pc = k.pc  BY <1>2 DEF Moved, Call
        <5>q. QED  BY <4>2, <5>1, <5>2
      <4>q. QED  BY <1>1, <2>2, <4>1, <4>2 DEF Commit
    <3>2. Idle.pc = "idle"  BY DEF Idle
    <3>q. QED  BY <1>1, <3>1, <3>2 DEF Means, Meant, Sweeping
  <2>3. CASE ~Commit(c) /\ c = e
    <3>1. PICK r : Goto(e, r) /\ Means(r, call[e], v)  BY <2>1, <2>3, StepsMean
    <3>q. QED  BY <3>1, OthersStay
  <2>4. CASE ~Commit(c) /\ c # e  BY <1>1, <1>3, <2>1, <2>4, OneMoves
  <2>q. QED  BY <2>2, <2>3, <2>4
<1>5. ASSUME NEW u \in Versions, NEW on \in BOOLEAN, Pin(u, on)  PROVE call'[e] = k
  BY <1>1, <1>5 DEF Pin
<1>q. QED  BY <1>3, <1>4, <1>5 DEF Next

LEMMA RetentionNext ==
  ASSUME TypeOK, TypeOK', Retention, [Next]_vars
  PROVE  Retention'
<1>1. CASE UNCHANGED vars
  BY <1>1 DEF vars, Retention, Ever, Stored, SweepsKeepNewest, DoomedExplained, Doomed, PublishedAfter,
              Newer, Outdated
<1>2. CASE Next
  <2>1. PICK w : \A v \in Versions : Kept(v) \/ (v = w /\ Published(v))
    BY <1>2, NextRows DEF RowsStep
  <2>2. IsFiniteSet(Ever')
    <3>1. Ever' \subseteq Ever \cup {w}  BY <2>1 DEF Kept, Ever
    <3>2. IsFiniteSet(Ever \cup {w})  BY FS_AddElement DEF Retention
    <3>q. QED  BY <3>1, <3>2, FS_Subset
  <2>3. \A u \in Ever : row'[u].born >= row[u].born
    BY <2>1, BornIsANumber DEF Kept, Published, Ever
  <2>4. ASSUME NEW v \in Versions, Kept(v), Old(v)  PROVE Old(v)'
    BY <2>2, <2>3, <2>4, OldStays DEF Kept
  <2>5. SweepsKeepNewest'
    <3> SUFFICES ASSUME NEW v \in Versions, row'[v].born # 0, ~Outdated(v)', Kept(v)
                 PROVE  Stored(v)' \/ Excused(v)'
      BY <2>1 DEF SweepsKeepNewest, Excused, Published
    <3>1. row[v].born # 0 /\ ~Old(v)  BY <2>4 DEF Kept, Old
    <3>2. Stored(v) \/ Excused(v)  BY <3>1 DEF Retention, SweepsKeepNewest, Old, Excused
    <3>q. QED  BY <3>1, <3>2 DEF Kept
  <2>6. DoomedExplained'
    <3> SUFFICES ASSUME NEW c \in Clients, NEW v \in Versions, Meant(call'[c], v), v \notin byHand'
                 PROVE  Old(v)' \/ Excused(v)'
      BY DEF DoomedExplained, Doomed, Meant, Old, Excused
    <3>1. Doomed(v) \/ Candidate(v)  BY <1>2, NextMeans DEF Means, Doomed, Meant
    <3>2. CASE Kept(v)
      <4>1. Old(v) \/ Excused(v)
        BY <3>1, CandidateIsOld DEF Retention, DoomedExplained, Old, Excused
      <4>q. QED  BY <2>4, <3>2, <4>1 DEF Kept
    <3>3. CASE Published(v)
      BY <3>1, <3>3, CandidateIsOld DEF Published
    <3>q. QED  BY <2>1, <3>2, <3>3
  <2>7. \A v \in Versions : Stored(v)' => row'[v].born # 0
    BY <2>1 DEF Retention, Kept, Published
  <2>q. QED  BY <2>2, <2>5, <2>6, <2>7 DEF Retention
<1>q. QED  BY <1>1, <1>2

(* Retention never takes one of the Keep newest versions that were ever     *)
(* published, however many sweeps work from lists they read earlier while   *)
(* versions are published, pinned and downloaded: it is stored, or a person *)
(* deleted it, or it was published again between a sweep's list and its     *)
(* deletions (apply_package_retention).                                     *)
THEOREM SweepsSpareTheNewest == Spec => []SweepsKeepNewest
<1>1. Init => Retention
  <2> SUFFICES ASSUME Init PROVE Retention  OBVIOUS
  <2>1. \A v \in Versions : row[v].born = 0 /\ ~Stored(v)  BY DEF Init, NoRow, Stored
  <2>2. Ever = {}  BY <2>1 DEF Ever
  <2>3. \A c \in Clients : call[c].pc \notin Sweeping  BY DEF Init, Idle, Sweeping
  <2>q. QED
    BY <2>1, <2>2, <2>3, FS_EmptySet DEF Retention, SweepsKeepNewest, DoomedExplained, Doomed
<1>2. TypeOK /\ TypeOK' /\ Retention /\ [Next]_vars => Retention'
  BY RetentionNext
<1>3. Retention => SweepsKeepNewest  BY DEF Retention
<1>q. QED  BY <1>1, <1>2, <1>3, PackageTypeCorrect, PTL DEF Spec
=============================================================================
