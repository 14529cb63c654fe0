--------------------------- MODULE PackageRegistry ---------------------------
(***************************************************************************)
(* The package registry: the tables package_repositories and               *)
(* package_versions with the files of the assets (src-tauri/src/           *)
(* pipelines.rs), and the content-addressed blobs of container images      *)
(* (src-tauri/src/package_registry.rs), for one repository.                *)
(*                                                                         *)
(* A publish checks and writes its row under SQLite's write lock, but      *)
(* gives the payload its name on disk after the commit.  Every other       *)
(* command is a sequence of statements and file operations with no lock    *)
(* around it.  One action is one transaction, statement or file operation. *)
(***************************************************************************)
EXTENDS Naturals, FiniteSets

CONSTANTS
    Clients,           \* requests being served at one time
    Versions,          \* ids of package_versions rows, in their order
    Files,             \* asset names
    Digests,           \* blobs that are uploaded
    None,
    Keep,              \* retention_version_count
    RetainDownloaded,  \* retain_downloaded
    ImmutableDefault,  \* SPACE_PACKAGE_IMMUTABLE_DEFAULT
    MaxPayloads, MaxCommands, MaxFaults   \* for model checking only

ASSUME NamesAssumption ==
    /\ Versions \subseteq Nat /\ None \notin Versions \cup Files \cup Digests
    /\ Digests \cap (Versions \X Files) = {}
ASSUME PolicyAssumption ==
    Keep \in Nat /\ RetainDownloaded \in BOOLEAN /\ ImmutableDefault \in BOOLEAN
ASSUME BoundsAssumption == MaxPayloads \in Nat /\ MaxCommands \in Nat /\ MaxFaults \in Nat

VARIABLES
    repo,      \* the repository's row exists
    row,       \* package_versions
    disk,      \* the payload stored under each asset's name; 0: no file
    final,     \* the blob files under their digest
    staging,   \* the ".partial" files, one name per digest
    call,      \* what each client runs
    payloads,  \* payloads published so far: a payload is its number
    begun,     \* commands so far
    faults,    \* crashes and failed operations so far
    accepted,  \* history: digests an upload was answered 201 for
    sealed,    \* history: what an immutable version has served
    raced,     \* history: assets two publishes had between commit and rename
    torn,      \* history: assets and blobs that a failed command left
    reopened,  \* history: versions that a publish made mutable or took for new
    byHand,    \* history: versions a person deleted
    relisted   \* history: versions published again while due for deletion

vars == <<repo, row, disk, final, staging, call, payloads, begun, faults,
          accepted, sealed, raced, torn, reopened, byHand, relisted>>

-----------------------------------------------------------------------------
Payload == 0..MaxPayloads

(* files: the payload _files has an entry for.  main: _file_path.  born     *)
(* outlives the row, to tell a version that was published before.           *)
Row == [stored : BOOLEAN, files : [Files -> Payload], main : Files \cup {None},
        immutable : BOOLEAN, pinned : BOOLEAN, downloaded : BOOLEAN, born : Nat]

NoFiles == [f \in Files |-> 0]
NoRow(b) == [stored |-> FALSE, files |-> NoFiles, main |-> None, immutable |-> FALSE,
             pinned |-> FALSE, downloaded |-> FALSE, born |-> b]

(* todo: the versions a document or a sweep has left.  at: where the file   *)
(* is now that an upload holds open.                                        *)
Call == [pc        : {"idle", "publish", "rename", "sweep", "lookup", "unlink", "drop",
                      "bump", "drop repository", "stage", "write", "commit"},
         todo      : SUBSET Versions,
         v         : Versions \cup {None},
         file      : Files \cup {None},
         immutable : BOOLEAN,
         payload   : Payload,
         digest    : Digests \cup {None},
         at        : {"staging", "final", "lost"}]

Idle == [pc |-> "idle", todo |-> {}, v |-> None, file |-> None, immutable |-> FALSE,
         payload |-> 0, digest |-> None, at |-> "lost"]

Shape(k) ==
    /\ k.pc \in {"rename", "unlink"} => k.v \in Versions /\ k.file \in Files
    /\ k.pc \in {"lookup", "drop", "bump"} => k.v \in Versions
    /\ k.pc \in {"stage", "write", "commit"} => k.digest \in Digests

Content == {"none", "part", "whole"}

TypeOK ==
    /\ repo \in BOOLEAN
    /\ row \in [Versions -> Row]
    /\ disk \in [Versions -> [Files -> Payload]]
    /\ final \in [Digests -> Content]
    /\ staging \in [Digests -> Content]
    /\ call \in [Clients -> Call]
    /\ payloads \in Payload /\ begun \in 0..MaxCommands /\ faults \in 0..MaxFaults
    /\ accepted \subseteq Digests
    /\ sealed \in [Versions -> [Files -> Payload]]
    /\ raced \subseteq Versions \X Files
    /\ torn \subseteq (Versions \X Files) \cup Digests
    /\ reopened \subseteq Versions
    /\ byHand \subseteq Versions /\ relisted \subseteq Versions
    /\ \A c \in Clients : Shape(call[c])

Init ==
    /\ repo = TRUE
    /\ row = [v \in Versions |-> NoRow(0)]
    /\ disk = [v \in Versions |-> NoFiles]
    /\ final = [d \in Digests |-> "none"] /\ staging = [d \in Digests |-> "none"]
    /\ call = [c \in Clients |-> Idle]
    /\ payloads = 0 /\ begun = 0 /\ faults = 0
    /\ accepted = {} /\ raced = {} /\ torn = {} /\ reopened = {}
    /\ sealed = [v \in Versions |-> NoFiles]
    /\ byHand = {} /\ relisted = {}

Stored(v)    == row[v].stored
Listed(v, f) == Stored(v) /\ row[v].files[f] # 0
Is(c, l)     == call[c].pc = l

Goto(c, k) == call' = [call EXCEPT ![c] = k]
Return(c)  == Goto(c, Idle)
Begin(c, k) ==
    /\ Is(c, "idle") /\ begun < MaxCommands
    /\ Goto(c, k)
    /\ begun' = begun + 1

registry == <<repo, row, disk>>
blobs    == <<final, staging, accepted>>
history  == <<raced, torn, reopened, byHand, relisted>>

-----------------------------------------------------------------------------
(* Faulty variants of the definitions below; each breaks a property.        *)

Mut_FirstEntryWins(old, f, n) ==
    [g \in Files |-> IF g = f /\ old[g] = 0 THEN n ELSE old[g]]
Mut_RefusesMetadataOnly(v, f) == Stored(v) /\ row[v].immutable /\ f = None
Mut_KeepsOneLess(v) ==
    /\ Stored(v) /\ ~row[v].pinned /\ ~(RetainDownloaded /\ row[v].downloaded)
    /\ Cardinality({u \in Versions : Stored(u) /\ ~row[u].pinned}) > Keep
Mut_ShortWrite           == "part"
Mut_CountsStaged(d)      == final[d] # "none" \/ staging[d] = "whole"

-----------------------------------------------------------------------------
(* publish_package_version_tx.                                              *)

(* An immutable version takes a new asset, and nothing else. *)
AddsNewAsset(v, f) == f # None /\ row[v].files[f] = 0
Refused(v, f)      == Stored(v) /\ row[v].immutable /\ ~AddsNewAsset(v, f)

(* the new _files *)
Listing(old, f, n) == IF f = None THEN old ELSE [old EXCEPT ![f] = n]

Awaits(c, v, f) == Is(c, "rename") /\ call[c].v = v /\ call[c].file = f

(* serde_json keeps the versions of a document in their order. *)
Comes(v, S) == v \in S /\ \A u \in S : v <= u

(* The next version of the document, or the end of the call. *)
Continue(c, left) ==
    IF left = {} THEN Idle ELSE [call[c] EXCEPT !.pc = "publish", !.todo = left, !.v = None, !.payload = 0]

(* publish_package_version and publish_registry_bytes publish one version,  *)
(* npm_publish_document the versions of a document one after the other.     *)
BeginPublish(c) ==
    /\ \E S \in SUBSET Versions \ {{}}, f \in Files \cup {None}, imm \in BOOLEAN :
          /\ imm = ImmutableDefault \/ Cardinality(S) = 1
          /\ Begin(c, [Idle EXCEPT !.pc = "publish", !.todo = S, !.file = f, !.immutable = imm])
    /\ UNCHANGED <<registry, blobs, payloads, faults, history>>

(* A version that some call has yet to delete. *)
Sweeping == {"sweep", "lookup", "unlink", "drop"}
Doomed(v) == \E c \in Clients : call[c].pc \in Sweeping /\ (v \in call[c].todo \/ call[c].v = v)

(* The transaction: check, staged payload (a file name of its own), upsert. *)
(* A SELECT of it that fails is taken for an absent row: of the flag (or of *)
(* the _files the check looks at) or of the _files the new ones extend.     *)
Publish(c) == \E v \in call[c].todo, unread \in SUBSET {"immutable", "_files"} :
    LET k == call[c]  f == k.file  n == payloads + 1
        old == IF "_files" \in unread THEN NoFiles ELSE row[v].files
    IN
    /\ Is(c, "publish") /\ Comes(v, k.todo)
    /\ repo /\ (Refused(v, f) => "immutable" \in unread)
    /\ f # None => payloads < MaxPayloads
    /\ faults' = faults + Cardinality(unread) /\ faults' <= MaxFaults
    /\ \E b \in 1..begun :
          /\ IF Stored(v) THEN b = row[v].born ELSE \A u \in Versions : row[u].born <= b
          /\ row' = [row EXCEPT ![v] = [@ EXCEPT !.stored = TRUE, !.files = Listing(old, f, n),
                                                 !.main = f, !.immutable = k.immutable, !.born = b]]
    /\ IF f = None
         THEN /\ Goto(c, Continue(c, k.todo \ {v}))
              /\ UNCHANGED <<payloads, raced, torn>>
         ELSE /\ Goto(c, [k EXCEPT !.pc = "rename", !.todo = k.todo \ {v}, !.v = v, !.payload = n])
              /\ payloads' = n
              /\ raced' = IF \E d \in Clients \ {c} : Awaits(d, v, f)
                          THEN raced \cup {<<v, f>>} ELSE raced \ {<<v, f>>}
              /\ torn' = torn \ {<<v, f>>}
    /\ reopened' = IF Stored(v) /\ row[v].immutable /\ (~k.immutable \/ unread # {})
                   THEN reopened \cup {v} ELSE reopened
    /\ IF Stored(v) THEN UNCHANGED <<byHand, relisted>>
       ELSE /\ byHand' = byHand \ {v}
            /\ relisted' = IF Doomed(v) THEN relisted \cup {v} ELSE relisted \ {v}
    /\ UNCHANGED <<repo, disk, blobs, begun>>

(* The error ends the call, and a document where it is. *)
Refuse(c) == \E v \in call[c].todo :
    /\ Is(c, "publish") /\ Comes(v, call[c].todo)
    /\ ~(repo /\ ~Refused(v, call[c].file))
    /\ Return(c)
    /\ UNCHANGED <<registry, blobs, payloads, begun, faults, history>>

(* "The row is durable, so the bytes may take their final name." *)
Rename(c) ==
    LET k == call[c] IN
    /\ Is(c, "rename")
    /\ disk' = [disk EXCEPT ![k.v] = [@ EXCEPT ![k.file] = k.payload]]
    /\ Goto(c, Continue(c, k.todo))
    /\ UNCHANGED <<repo, row, blobs, payloads, begun, faults, history>>

-----------------------------------------------------------------------------
(* delete_package_version, by hand or from apply_package_retention.         *)

BeginDelete(c, v) ==
    /\ Begin(c, [Idle EXCEPT !.pc = "lookup", !.v = v])
    /\ byHand' = byHand \cup {v}
    /\ UNCHANGED <<registry, blobs, payloads, faults, raced, torn, reopened, relisted>>

(* ORDER BY created_at DESC, id DESC *)
Newer(u, v) == row[u].born > row[v].born \/ (row[u].born = row[v].born /\ u > v)

(* package_retention_candidates_conn, for a policy by number *)
Candidate(v) ==
    /\ Stored(v) /\ ~row[v].pinned /\ ~(RetainDownloaded /\ row[v].downloaded)
    /\ Cardinality({u \in Versions : Stored(u) /\ ~row[u].pinned /\ Newer(u, v)}) >= Keep

BeginSweep(c) ==
    LET S == {v \in Versions : Candidate(v)} IN
    /\ repo /\ S # {}
    /\ Begin(c, [Idle EXCEPT !.pc = "sweep", !.todo = S])
    /\ UNCHANGED <<registry, blobs, payloads, faults, history>>

SweepNext(c) ==
    /\ Is(c, "sweep")
    /\ \E v \in call[c].todo :
          Goto(c, [call[c] EXCEPT !.pc = "lookup", !.v = v, !.todo = call[c].todo \ {v}])
    /\ UNCHANGED <<registry, blobs, payloads, begun, faults, history>>

(* the file delete_package_version removes *)
Target(v) == IF Stored(v) THEN row[v].main ELSE None

Lookup(c) ==
    LET f == Target(call[c].v) IN
    /\ Is(c, "lookup")
    /\ Goto(c, [call[c] EXCEPT !.pc = IF f = None THEN "drop" ELSE "unlink", !.file = f])
    /\ UNCHANGED <<registry, blobs, payloads, begun, faults, history>>

Unlink(c) ==
    LET k == call[c] IN
    /\ Is(c, "unlink")
    /\ disk' = [disk EXCEPT ![k.v] = [@ EXCEPT ![k.file] = 0]]
    /\ Goto(c, [k EXCEPT !.pc = "drop"])
    /\ UNCHANGED <<repo, row, blobs, payloads, begun, faults, history>>

(* Its error is ignored. *)
UnlinkFails(c) ==
    /\ Is(c, "unlink") /\ faults < MaxFaults
    /\ Goto(c, [call[c] EXCEPT !.pc = "drop", !.file = None])
    /\ faults' = faults + 1
    /\ UNCHANGED <<registry, blobs, payloads, begun, history>>

Drop(c) ==
    LET k == call[c] IN
    /\ Is(c, "drop")
    /\ row' = [row EXCEPT ![k.v] = NoRow(row[k.v].born)]
    /\ Goto(c, IF k.todo = {} THEN Idle ELSE [Idle EXCEPT !.pc = "sweep", !.todo = k.todo])
    /\ reopened' = reopened \ {k.v}
    /\ UNCHANGED <<repo, disk, blobs, payloads, begun, faults, raced, torn, byHand, relisted>>

(* delete_package_repository: the versions in one statement, the repository *)
(* in another, which the foreign key refuses when a version came in between. *)
BeginDeleteRepository(c) ==
    /\ Begin(c, [Idle EXCEPT !.pc = "drop repository"])
    /\ row' = [v \in Versions |-> NoRow(row[v].born)]
    /\ byHand' = byHand \cup {v \in Versions : Stored(v)}
    /\ reopened' = {}
    /\ UNCHANGED <<repo, disk, blobs, payloads, faults, raced, torn, relisted>>

DropRepository(c) ==
    /\ Is(c, "drop repository")
    /\ repo' = (repo /\ \E v \in Versions : Stored(v))
    /\ Return(c)
    /\ UNCHANGED <<row, disk, blobs, payloads, begun, faults, history>>

-----------------------------------------------------------------------------
(* set_package_version_pinned *)
Pin(v, on) ==
    /\ Stored(v) /\ begun < MaxCommands
    /\ row' = [row EXCEPT ![v] = [@ EXCEPT !.pinned = on]]
    /\ begun' = begun + 1
    /\ UNCHANGED <<repo, disk, blobs, call, payloads, faults, history>>

(* download_registry_bytes: look the asset and its file up, count the       *)
(* download, read the file (which changes nothing).                         *)
BeginDownload(c, v) ==
    /\ \E f \in Files : Listed(v, f) /\ disk[v][f] # 0
    /\ Begin(c, [Idle EXCEPT !.pc = "bump", !.v = v])
    /\ UNCHANGED <<registry, blobs, payloads, faults, history>>

Bump(c) ==
    LET v == call[c].v IN
    /\ Is(c, "bump")
    /\ row' = [row EXCEPT ![v] = [@ EXCEPT !.downloaded = Stored(v)]]
    /\ Return(c)
    /\ UNCHANGED <<repo, disk, blobs, payloads, begun, faults, history>>

-----------------------------------------------------------------------------
(* store_blob.  fs::write opens the staging file, which truncates it, and   *)
(* writes; two uploads of one digest share it.                              *)

Exists(d) == final[d] # "none"

BeginUpload(c, d) ==
    /\ repo
    /\ IF Exists(d)
         THEN /\ Begin(c, Idle)
              /\ accepted' = accepted \cup {d}
         ELSE /\ Begin(c, [Idle EXCEPT !.pc = "stage", !.digest = d])
              /\ UNCHANGED accepted
    /\ UNCHANGED <<registry, final, staging, payloads, faults, history>>

Stage(c) ==
    LET k == call[c] IN
    /\ Is(c, "stage")
    /\ staging' = [staging EXCEPT ![k.digest] = "part"]
    /\ Goto(c, [k EXCEPT !.pc = "write", !.at = "staging"])
    /\ UNCHANGED <<registry, final, accepted, payloads, begun, faults, history>>

Written == "whole"

(* The bytes go to the file that was opened, wherever a rename moved it. *)
Write(c) ==
    LET k == call[c] IN
    /\ Is(c, "write")
    /\ staging' = IF k.at = "staging" THEN [staging EXCEPT ![k.digest] = Written] ELSE staging
    /\ final'   = IF k.at = "final"   THEN [final   EXCEPT ![k.digest] = Written] ELSE final
    /\ Goto(c, [k EXCEPT !.pc = "commit"])
    /\ UNCHANGED <<registry, accepted, payloads, begun, faults, history>>

(* The files other uploads hold open move with their names. *)
Moved(k, d) ==
    IF k.pc # "write" \/ k.digest # d THEN k
    ELSE [k EXCEPT !.at = IF k.at = "staging" THEN "final" ELSE "lost"]

Commit(c) ==
    LET d == call[c].digest IN
    /\ Is(c, "commit")
    /\ IF staging[d] = "none"   \* the rename fails
         THEN Return(c) /\ UNCHANGED blobs
         ELSE /\ final' = [final EXCEPT ![d] = staging[d]]
              /\ staging' = [staging EXCEPT ![d] = "none"]
              /\ accepted' = accepted \cup {d}
              /\ call' = [e \in Clients |-> IF e = c THEN Idle ELSE Moved(call[e], d)]
    /\ UNCHANGED <<registry, payloads, begun, faults, history>>

-----------------------------------------------------------------------------
(* The process dies, or an operation fails and its error ends the call.     *)
Leftover(k) ==
    IF k.pc = "write" THEN {k.digest}
    ELSE IF k.pc \in {"rename", "drop"} /\ k.file # None THEN {<<k.v, k.file>>} ELSE {}

Stop(c) ==
    /\ ~Is(c, "idle") /\ faults < MaxFaults
    /\ faults' = faults + 1
    /\ torn' = torn \cup Leftover(call[c])
    /\ Return(c)
    /\ UNCHANGED <<registry, blobs, payloads, begun, raced, reopened, byHand, relisted>>

(* What an immutable version serves as it was listed is remembered. *)
Seals(v, f) == row[v].immutable /\ Listed(v, f) /\ disk[v][f] = row[v].files[f]

Seal == sealed' = [v \in Versions |-> [f \in Files |->
                     IF Seals(v, f)' THEN disk'[v][f]
                     ELSE IF row'[v].stored THEN sealed[v][f] ELSE 0]]

Step(c) ==
    \/ BeginPublish(c) \/ Publish(c) \/ Refuse(c) \/ Rename(c)
    \/ BeginSweep(c) \/ SweepNext(c) \/ Lookup(c) \/ Unlink(c) \/ UnlinkFails(c) \/ Drop(c)
    \/ BeginDeleteRepository(c) \/ DropRepository(c) \/ Bump(c)
    \/ Stage(c) \/ Write(c) \/ Commit(c) \/ Stop(c)
    \/ \E v \in Versions : BeginDelete(c, v) \/ BeginDownload(c, v)
    \/ \E d \in Digests : BeginUpload(c, d)

Next ==
    /\ \/ \E c \in Clients : Step(c)
       \/ \E v \in Versions, on \in BOOLEAN : Pin(v, on)
    /\ Seal

Spec == Init /\ [][Next]_vars

-----------------------------------------------------------------------------
(* Every asset a version lists is stored with the bytes it was listed for,  *)
(* but while a publish or a deletion of it is between its two halves, after *)
(* two publishes of it overlapped there, or after one of them was cut short *)
(* (publish_package_version_tx: commit first, rename after).                *)
ListedIsStored ==
    \A v \in Versions, f \in Files : Listed(v, f) =>
        \/ disk[v][f] = row[v].files[f]
        \/ \E c \in Clients : Awaits(c, v, f)
        \/ \E c \in Clients : Is(c, "drop") /\ call[c].v = v /\ call[c].file = f
        \/ <<v, f>> \in raced \cup torn

(* 'Immutable means "published bytes never change"': what an immutable      *)
(* version has served is not replaced until the version is deleted.         *)
ImmutableForGood ==
    \A v \in Versions, f \in Files : sealed[v][f] # 0 => disk[v][f] \in {0, sealed[v][f]}

(* It is replaced in three cases only: a publish that committed before the  *)
(* version was sealed gives its payload the name afterwards, the publish of *)
(* another asset made the version mutable again, or a publish could not     *)
(* read the row and took the version for a new one.                         *)
ImmutableExplained ==
    \A v \in Versions, f \in Files :
        sealed[v][f] # 0 /\ v \notin reopened /\ <<v, f>> \notin raced
          => disk[v][f] \in {0, sealed[v][f]}

(* However sweeps and publishes interleave, retention never takes one of    *)
(* the Keep newest versions that were ever published of a package: such a   *)
(* version is stored, or a person deleted it, or it was published again     *)
(* after a sweep had listed it and before that sweep came to delete it      *)
(* (apply_package_retention deletes what it read, one by one).              *)
PublishedAfter(v) == {u \in Versions : row[u].born # 0 /\ Newer(u, v)}
Outdated(v) == Cardinality(PublishedAfter(v)) >= Keep

SweepsKeepNewest ==
    \A v \in Versions : row[v].born # 0 /\ ~Outdated(v) => Stored(v) \/ v \in byHand \cup relisted

(* "a reader never sees a half-written blob under a digest that promises    *)
(* the whole content": it does only while another upload of that digest is  *)
(* writing it, or after one was cut short there (store_blob).               *)
HalfBlobsExplained ==
    \A d \in Digests : final[d] = "part" =>
        \/ d \in torn
        \/ \E c \in Clients : Is(c, "write") /\ call[c].digest = d /\ call[c].at = "final"

(* A blob whose upload was answered 201 is in the store from then on.       *)
AcceptedStays == \A d \in accepted : final[d] # "none"

-----------------------------------------------------------------------------
(* The inductive invariant behind the properties of one asset and one blob. *)

(* A publish that has not given its payload the name is the one its row     *)
(* lists, or is overtaken and recorded as such.                             *)
PendingIsListed ==
    \A c \in Clients, v \in Versions, f \in Files :
        Awaits(c, v, f) =>
            /\ call[c].payload # 0
            /\ Listed(v, f) => row[v].files[f] = call[c].payload \/ <<v, f>> \in raced

(* While nothing makes the version mutable, its listing is what it served.  *)
SealedIsListed ==
    \A v \in Versions, f \in Files : sealed[v][f] # 0 =>
        /\ Stored(v)
        /\ v \notin reopened => row[v].immutable /\ row[v].files[f] = sealed[v][f]

RowShape ==
    \A v \in Versions : ~Stored(v) => row[v].files = NoFiles /\ ~row[v].immutable

StagedIsWritten ==
    \A d \in Digests : staging[d] = "part" =>
        \/ d \in torn
        \/ \E c \in Clients : Is(c, "write") /\ call[c].digest = d /\ call[c].at = "staging"

(* What a call has yet to delete was listed by a sweep, and stays older     *)
(* than Keep versions until it is published again, or is a person's choice. *)
DoomedExplained ==
    \A v \in Versions : Doomed(v) => (row[v].born # 0 /\ Outdated(v)) \/ v \in byHand \cup relisted

Inv ==
    /\ TypeOK
    /\ RowShape
    /\ PendingIsListed /\ ListedIsStored
    /\ SealedIsListed  /\ ImmutableExplained
    /\ StagedIsWritten /\ HalfBlobsExplained /\ AcceptedStays
=============================================================================
