------------------------------ MODULE SafeMerge ------------------------------
(***************************************************************************)
(* Code review and the commands that move branches: src-tauri/src/review.rs. *)
(* A review asks for one branch to be merged into another.  Five commands  *)
(* write refs of its repository (the safe merge, a suggested edit, a       *)
(* cherry-pick, a restack, and the deletion of a merged source branch),    *)
(* while people push to the same branches.                                 *)
(*                                                                         *)
(* A commit is the set of the commits reachable from it, itself included:  *)
(* two different commits are two different sets, "ancestor of" is \subseteq *)
(* and a branch that does not exist has the empty set for its tip.  What   *)
(* a commit changes is kept by its number in "change", and what the file of *)
(* the suggested edit reads at it in "file"; a commit's number is greater  *)
(* than those of its ancestors.                                            *)
(*                                                                         *)
(* No command holds a lock or a transaction over more than one statement.  *)
(* One action is a run of reads that ends in at most one write.            *)
(***************************************************************************)
EXTENDS Naturals, FiniteSets, Sequences

CONSTANTS
    Clients,        \* concurrent executions of commands
    Branches,
    Reviews,
    Stack,          \* the stacked reviews, in their order: a sequence
    Trunk,          \* the stack's target branch
    Works,          \* what pushed commits can change
    Edit,           \* the change the suggested edit makes
    Merge,          \* the "change" of a merge commit
    None,
    Clash,          \* pairs of changes that conflict when they meet
    Texts,          \* what the file the suggestion is about can read
    Edited,         \* the text the suggestion makes of its base
    SuggestedOn,    \* the review the suggestion belongs to
    Asked,          \* the merges callers ask for: review, source and target branch
    Sent,           \* the rows callers send to update_review: review and row
    InitReview, InitTip, InitChange, InitFile,
    MaxCommits, MaxCommands, MaxFaults  \* for model checking only

ASSUME BoundsAssumption == MaxCommits \in Nat \ {0} /\ MaxCommands \in Nat /\ MaxFaults \in Nat

ASSUME NamesAssumption ==
    /\ None \notin Works \cup {Edit, Merge} /\ Edit \notin Works /\ Merge \notin Works
    /\ Edit # Merge /\ Edited \in Texts
    /\ Trunk \in Branches /\ SuggestedOn \in Reviews /\ Stack \in Seq(Reviews)
    /\ Asked \subseteq Reviews \X Branches \X Branches /\ IsFiniteSet(Branches)

Numbers == 1..MaxCommits
Changes == Works \cup {Edit, Merge}

States == {"Opened", "Closed", "Merged"}
Statuses == {"OPEN", "ACCEPTED", "REJECTED"}
ReviewRow == [state : States, source : Branches, target : Branches]

(* At first every commit is on a branch, and nothing has been merged.       *)
ASSUME InitAssumption ==
    /\ InitReview \in [Reviews -> ReviewRow] /\ Sent \subseteq Reviews \X ReviewRow
    /\ InitTip \in [Branches -> SUBSET Numbers]
    /\ InitChange \in [Numbers -> Changes \cup {None}] /\ InitFile \in [Numbers -> Texts]
    /\ \E k \in 0..MaxCommits : /\ {n \in Numbers : InitChange[n] # None} = 1..k
                                /\ UNION {InitTip[b] : b \in Branches} = 1..k
    /\ \A n \in Numbers : InitChange[n] \in Works \cup {None}
    /\ \A r \in Reviews : InitReview[r].state # "Merged"

VARIABLES
    change,    \* what each commit changes; None: not made yet
    file,      \* what the suggestion's file reads at each commit
    tip,       \* refs/heads of the repository
    review,    \* the table reviews
    edit,      \* the suggestion's row in review_discussions
    run,       \* where each command stands
    begun,     \* commands so far
    faults,    \* failures so far
    overwritten, \* history: commits a ref lost after the writer's last look
    landed,    \* history: the merge commits of a review that reached a ref
    broken,    \* history: reviews whose merge failed after it moved the ref
    crossed,   \* history: merged reviews whose branch became a target again
    rewritten, \* history: reviews update_review wrote
    forwarded, \* history: branches a restack moved that had no commits of their own
    claimed,   \* history: reviews a caller called merged before any merge of theirs
    deleted    \* history: source and target of the merges that deleted their source

vars == <<change, file, tip, review, edit, run, begun, faults, overwritten, landed, broken, crossed, rewritten,
          forwarded, claimed, deleted>>

Commit == SUBSET Numbers
Made(n) == change[n] # None
Count == Cardinality({n \in Numbers : Made(n)})
Fresh == Count + 1
WorksOf(c) == {change[n] : n \in c}
Newest(c) == CHOOSE n \in c : \A m \in c : m <= n
At(f, c) == IF c = {} THEN None ELSE f[Newest(c)]
Text(c) == At(file, c)
Reachable == UNION {tip[b] : b \in Branches}
Conflicts(a, b) == \E x \in WorksOf(a \ b), y \in WorksOf(b \ a) : {x, y} \in Clash

(* A command that moves one ref.  src, dst: the branch it reads and the one *)
(* it writes.  s, t: their tips as read; seenS, seenT: as it last saw them. *)
Move == [pc : {"preview", "checks", "recheck", "compare", "write", "state", "delete",
               "retarget", "record"},
         kind : {"merge", "apply", "pick"}, r : Reviews, src : Branches, dst : Branches,
         del : BOOLEAN, s : Commit, t : Commit, seenS : Commit, seenT : Commit,
         checked : Commit, new : Commit, id : Numbers]

(* The place in the stack, the tips read up front, and for the member there *)
(* the original and the new tip of the one before.                          *)
Restack == [pc : {"member"}, left : 1..Len(Stack), tips : [Branches -> Commit],
            prev : Commit, base : Commit]

Run == Move \cup Restack \cup [pc : {"set"}, status : Statuses]
       \cup [pc : {"idle"}]

Idle == [pc |-> "idle"]
Mover(l, k, r, b, d) ==
    [pc |-> l, kind |-> k, r |-> r, src |-> b, dst |-> d, del |-> FALSE, s |-> {}, t |-> {},
     seenS |-> {}, seenT |-> {}, checked |-> {}, new |-> {}, id |-> 1]

Suggestion == [status : Statuses, conflicts : BOOLEAN,
               applied : Numbers \cup {0}, base : Commit, loose : BOOLEAN]

TypeOK ==
    /\ change \in [Numbers -> Changes \cup {None}]
    /\ file \in [Numbers -> Texts]
    /\ tip \in [Branches -> Commit]
    /\ review \in [Reviews -> ReviewRow]
    /\ edit \in Suggestion
    /\ run \in [Clients -> Run]
    /\ begun \in 0..MaxCommands /\ faults \in 0..MaxFaults
    /\ overwritten \in Commit
    /\ landed \in [Reviews -> Commit]
    /\ broken \subseteq Reviews /\ crossed \subseteq Reviews /\ rewritten \subseteq Reviews
    /\ forwarded \subseteq Branches
    /\ claimed \subseteq Reviews /\ deleted \subseteq Branches \X Branches
    /\ \A n \in Numbers : Made(n) <=> n <= Count
    /\ \A b \in Branches, n \in Numbers : n \in tip[b] => Made(n)

Init ==
    /\ change = InitChange /\ file = InitFile /\ tip = InitTip /\ review = InitReview
    /\ edit = [status |-> "OPEN", conflicts |-> FALSE, applied |-> 0,
               base |-> InitTip[InitReview[SuggestedOn].source], loose |-> FALSE]
    /\ run = [p \in Clients |-> Idle]
    /\ begun = 0 /\ faults = 0
    /\ overwritten = {} /\ landed = [r \in Reviews |-> {}] /\ broken = {} /\ crossed = {}
    /\ rewritten = {} /\ forwarded = {} /\ claimed = {} /\ deleted = {}

-----------------------------------------------------------------------------
(* Faulty variants; each breaks a property. *)
Mut_NoCompare(p)         == TRUE
Mut_TargetOnly(p)        == tip[run[p].dst] = run[p].t
Mut_AnyFile(c)           == TRUE
Mut_Siblings(r)          == {c \in {Stack[i] : i \in 1..Len(Stack)} :
                                /\ review[c].state = "Opened"
                                /\ review[c].target = review[r].target}
Mut_Recorded(id)         == [edit EXCEPT !.applied = id, !.conflicts = FALSE]

-----------------------------------------------------------------------------
(* Guards.                                                                  *)

Exists(b) == tip[b] # {}

(* attempt_merge's second reading of both tips *)
StillVerified(p) == tip[run[p].src] = run[p].s /\ tip[run[p].dst] = run[p].t

(* advance_verified_ref's *)
Unmoved(p) == tip[run[p].dst] = run[p].t

(* the file is the blob the suggestion was written against *)
FileUnchanged(c) == Text(c) = Text(edit.base)

Recorded(id) == [edit EXCEPT !.status = "ACCEPTED", !.applied = id, !.conflicts = FALSE]

ValidTransition(from, to) == \/ from = "OPEN" /\ to \in {"ACCEPTED", "REJECTED"}
                             \/ from \in {"ACCEPTED", "REJECTED"} /\ to = "OPEN"

Stacked == {Stack[i] : i \in 1..Len(Stack)}

Children(r) == {c \in Stacked : /\ review[c].state = "Opened"
                                /\ review[c].target = review[r].source}

-----------------------------------------------------------------------------
Set(p, r) == run' = [run EXCEPT ![p] = r]
Goto(p, l) == Set(p, [run[p] EXCEPT !.pc = l])
Return(p) == Set(p, Idle)
Begin(p) == run[p].pc = "idle" /\ begun < MaxCommands /\ begun' = begun + 1

(* a new commit: its change, and the file's text at it *)
Make(w, f) ==
    /\ Fresh \in Numbers
    /\ change' = [change EXCEPT ![Fresh] = w] /\ file' = [file EXCEPT ![Fresh] = f]

(* what a three-way merge can make of the file *)
Blend(ours, theirs, base) ==
    IF ours = base THEN {theirs}
    ELSE IF theirs \in {base, ours} THEN {ours}
    ELSE Texts

(* Someone pushes a commit on top of a branch. *)
Push(b) == \E w \in Works, f \in Texts :
    /\ Exists(b) /\ w \notin WorksOf(Numbers)
    /\ Make(w, f)
    /\ tip' = [tip EXCEPT ![b] = @ \cup {Fresh}]
    /\ UNCHANGED <<review, edit, run, begun, faults, overwritten, landed, broken, crossed, rewritten, forwarded, claimed, deleted>>

-----------------------------------------------------------------------------
(* attempt_merge.  The review and the branches are the caller's arguments;  *)
(* nothing compares them with the review's row.                             *)

BeginMerge(p) == \E a \in Asked, del \in BOOLEAN :
    /\ Begin(p)
    /\ Set(p, [Mover("preview", "merge", a[1], a[2], a[3]) EXCEPT !.del = del])
    /\ UNCHANGED <<change, file, tip, review, edit, faults, overwritten, landed, broken, crossed, rewritten, forwarded, claimed, deleted>>

(* merge_preview: both tips and whether they merge *)
Preview(p) == LET b == run[p].src  d == run[p].dst IN
    /\ run[p].pc = "preview"
    /\ IF Exists(b) /\ Exists(d) /\ ~Conflicts(tip[b], tip[d])
       THEN Set(p, [run[p] EXCEPT !.pc = "checks", !.s = tip[b], !.t = tip[d]])
       ELSE Return(p)
    /\ UNCHANGED <<change, file, tip, review, edit, begun, faults, overwritten, landed, broken, crossed, rewritten, forwarded, claimed, deleted>>

(* policy, permission, quality gate and CI say yes, or the command returns *)
Checks(p) ==
    /\ run[p].pc = "checks"
    /\ \/ Set(p, [run[p] EXCEPT !.pc = "recheck", !.checked = tip[run[p].src]])
       \/ Return(p)
    /\ UNCHANGED <<change, file, tip, review, edit, begun, faults, overwritten, landed, broken, crossed, rewritten, forwarded, claimed, deleted>>

(* both tips again, and the merge commit, which no ref shows yet *)
Recheck(p) ==
    /\ run[p].pc = "recheck"
    /\ IF StillVerified(p)
       THEN /\ \E f \in Texts \cap Blend(Text(tip[run[p].dst]), Text(tip[run[p].src]),
                                           Text(tip[run[p].dst] \cap tip[run[p].src])) :
                  Make(Merge, f)
            /\ Set(p, [run[p] EXCEPT !.pc = "compare", !.id = Fresh, !.seenS = tip[run[p].src],
                                     !.new = tip[run[p].src] \cup tip[run[p].dst] \cup {Fresh}])
       ELSE Return(p) /\ UNCHANGED <<change, file>>
    /\ UNCHANGED <<tip, review, edit, begun, faults, overwritten, landed, broken, crossed, rewritten, forwarded, claimed, deleted>>

(* advance_verified_ref looks at the branch ... *)
Compare(p) ==
    /\ run[p].pc = "compare"
    /\ IF Unmoved(p)
       THEN Set(p, [run[p] EXCEPT !.pc = "write", !.seenT = tip[run[p].dst]])
       ELSE Return(p)
    /\ UNCHANGED <<change, file, tip, review, edit, begun, faults, overwritten, landed, broken, crossed, rewritten, forwarded, claimed, deleted>>

(* ... and then overwrites it by force; so does a cherry-pick, without a look *)
AfterWrite == [merge |-> "state", apply |-> "record"]
Write(p) == LET d == run[p].dst IN
    /\ run[p].pc = "write"
    /\ tip' = [tip EXCEPT ![d] = run[p].new]
    /\ overwritten' = overwritten \cup (tip[d] \ run[p].seenT)
    /\ IF run[p].kind = "pick" THEN Return(p) ELSE Goto(p, AfterWrite[run[p].kind])
    /\ landed' = IF run[p].kind = "merge" THEN [landed EXCEPT ![run[p].r] = @ \cup {run[p].id}]
                 ELSE landed
    /\ UNCHANGED <<change, file, review, edit, begun, faults, broken, crossed, rewritten, forwarded, claimed, deleted>>

MarkMerged(p) ==
    /\ run[p].pc = "state"
    /\ review' = [review EXCEPT ![run[p].r].state = "Merged"]
    /\ Goto(p, IF run[p].del /\ run[p].src # run[p].dst THEN "delete" ELSE "retarget")
    /\ UNCHANGED <<change, file, tip, edit, begun, faults, overwritten, landed, broken, crossed, rewritten, forwarded, claimed, deleted>>

(* by name, whatever the branch holds by now; it may be gone *)
DeleteSource(p) == LET b == run[p].src IN
    /\ run[p].pc = "delete"
    /\ IF Exists(b)
       THEN /\ tip' = [tip EXCEPT ![b] = {}]
            /\ overwritten' = overwritten \cup (tip[b] \ run[p].seenS)
            /\ deleted' = deleted \cup {<<b, run[p].dst>>}
            /\ Goto(p, "retarget")
            /\ UNCHANGED broken
       ELSE /\ Return(p)
            /\ broken' = broken \cup {run[p].r}
            /\ UNCHANGED <<tip, overwritten, deleted>>
    /\ UNCHANGED <<change, file, review, edit, begun, faults, landed, crossed, rewritten, forwarded, claimed>>

(* retarget_stacked_children_tx, from the review's row as it is now *)
Retarget(p) == LET r == run[p].r IN
    /\ run[p].pc = "retarget"
    /\ review' = [c \in Reviews |-> IF c \in Children(r)
                                    THEN [review[c] EXCEPT !.target = review[r].target]
                                    ELSE review[c]]
    /\ crossed' = IF Children(r) = {} THEN crossed
                  ELSE crossed \cup {q \in Reviews : /\ review[q].state = "Merged"
                                                     /\ review[q].source = review[r].target}
    /\ Return(p)
    /\ UNCHANGED <<change, file, tip, edit, begun, faults, overwritten, landed, broken, rewritten, forwarded, claimed, deleted>>

-----------------------------------------------------------------------------
(* Suggested edits.                                                         *)

(* apply_suggested_edit_tx up to advance_verified_ref.  Its status is       *)
(* checked again when the edit is recorded, its branch when it is moved.    *)
BeginApply(p) == LET b == review[SuggestedOn].source IN
    /\ Begin(p)
    /\ edit.status = "OPEN" /\ Exists(b)
    /\ IF FileUnchanged(tip[b])
       THEN /\ Make(Edit, Edited)
            /\ Set(p, [Mover("compare", "apply", SuggestedOn, b, b)
                          EXCEPT !.t = tip[b], !.id = Fresh, !.new = tip[b] \cup {Fresh}])
            /\ UNCHANGED edit
       ELSE /\ edit' = [edit EXCEPT !.conflicts = TRUE]
            /\ UNCHANGED <<change, file, run>>
    /\ UNCHANGED <<tip, review, faults, overwritten, landed, broken, crossed, rewritten, forwarded, claimed, deleted>>

(* its UPDATE: only an edit that is still open is accepted *)
Record(p) ==
    /\ run[p].pc = "record"
    /\ edit' = IF edit.status = "OPEN"
               THEN Recorded(run[p].id)
               ELSE edit
    /\ Return(p)
    /\ UNCHANGED <<change, file, tip, review, begun, faults, overwritten, landed, broken, crossed, rewritten, forwarded, claimed, deleted>>

(* set_suggested_edit_status reads the status, and writes another by id *)
BeginStatus(p) == \E to \in Statuses :
    /\ Begin(p)
    /\ ValidTransition(edit.status, to)
    /\ Set(p, [pc |-> "set", status |-> to])
    /\ UNCHANGED <<change, file, tip, review, edit, faults, overwritten, landed, broken, crossed, rewritten, forwarded, claimed, deleted>>

SetStatus(p) ==
    /\ run[p].pc = "set"
    /\ edit' = [edit EXCEPT !.status = run[p].status, !.loose = @ \/ run[p].status = "OPEN"]
    /\ Return(p)
    /\ UNCHANGED <<change, file, tip, review, begun, faults, overwritten, landed, broken, crossed, rewritten, forwarded, claimed, deleted>>

-----------------------------------------------------------------------------
(* Stacks.                                                                  *)

(* stack_cherry_pick_tx up to its forced write: a pushed commit that some    *)
(* branch shows and whose change this one has not got; the cherry-pick may   *)
(* leave any text in the file                                               *)
BeginPick(p, r) == \E n \in Reachable, f \in Texts : LET b == review[r].source IN
    /\ Begin(p)
    /\ change[n] \in Works /\ Exists(b) /\ change[n] \notin WorksOf(tip[b])
    /\ ~\E w \in WorksOf(tip[b]) : {w, change[n]} \in Clash
    /\ Make(change[n], f)
    /\ Set(p, [Mover("write", "pick", r, b, b)
                  EXCEPT !.t = tip[b], !.seenT = tip[b], !.new = tip[b] \cup {Fresh}])
    /\ UNCHANGED <<tip, review, edit, faults, overwritten, landed, broken, crossed, rewritten, forwarded, claimed, deleted>>

(* restack_stack_tx: the tips of all members are read up front *)
BeginRestack(p) ==
    /\ Begin(p)
    /\ Len(Stack) > 0 /\ Exists(Trunk) /\ \A i \in 1..Len(Stack) : Exists(review[Stack[i]].source)
    /\ Set(p, [pc |-> "member", left |-> 1, tips |-> tip,
               prev |-> tip[Trunk], base |-> tip[Trunk]])
    /\ UNCHANGED <<change, file, tip, review, edit, faults, overwritten, landed, broken, crossed, rewritten, forwarded, claimed, deleted>>

(* the number of the copy of a replayed commit *)
Copy(replay, n) == Count + Cardinality({m \in replay : m <= n})

(* One member: it stands on its new base already, or its own commits are    *)
(* copied onto it, or one of them cannot be and the command ends.  A copy   *)
(* merges the file of the commit before it in the new history with what its *)
(* original did to the file of the commit before that one in the old.       *)
Member(p) ==
    LET b      == review[Stack[run[p].left]].source
        orig   == run[p].tips[b]
        base   == run[p].base
        old    == orig \cap run[p].prev
        replay == orig \ old
        copies == {Copy(replay, n) : n \in replay}
        rest   == run[p].left + 1
        go(c)  == IF rest <= Len(Stack)
                  THEN Set(p, [run[p] EXCEPT !.left = rest, !.prev = orig, !.base = c])
                  ELSE Return(p)
    IN
    /\ run[p].pc = "member"
    /\ \/ /\ old = base
          /\ go(orig) /\ UNCHANGED <<change, file, tip, overwritten, forwarded>>
       \/ /\ old # base
          /\ Merge \in WorksOf(replay) \/ Conflicts(orig, base)
          /\ Return(p) /\ UNCHANGED <<change, file, tip, overwritten, forwarded>>
       \/ /\ old # base
          /\ Merge \notin WorksOf(replay) /\ ~Conflicts(orig, base)
          /\ copies \subseteq Numbers
          /\ change' = [n \in Numbers |-> IF n \in copies
                        THEN change[CHOOSE m \in replay : Copy(replay, m) = n] ELSE change[n]]
          /\ \E t \in [copies -> Texts] :
                /\ file' = [n \in Numbers |-> IF n \in copies THEN t[n] ELSE file[n]]
                /\ \A n \in replay : t[Copy(replay, n)] \in
                      Blend(At(file', base \cup {k \in copies : k < Copy(replay, n)}),
                            file[n], Text({m \in orig : m < n}))
          /\ tip' = [tip EXCEPT ![b] = base \cup copies]
          /\ overwritten' = overwritten \cup (tip[b] \ orig)
          /\ forwarded' = IF copies = {} THEN forwarded \cup {b} ELSE forwarded
          /\ go(base \cup copies)
    /\ UNCHANGED <<review, edit, begun, faults, landed, broken, crossed, rewritten, claimed, deleted>>

-----------------------------------------------------------------------------
(* update_review writes the whole row its caller sends: any state, and any  *)
(* branches.                                                                *)
Update(r) == \E row \in ReviewRow :
    /\ <<r, row>> \in Sent /\ begun < MaxCommands /\ begun' = begun + 1
    /\ review' = [review EXCEPT ![r] = row]
    /\ rewritten' = rewritten \cup {r}
    /\ claimed' = IF row.state = "Merged" /\ landed[r] = {} THEN claimed \cup {r} ELSE claimed
    /\ UNCHANGED <<change, file, tip, edit, run, faults, overwritten, landed, broken, crossed, forwarded, deleted>>

(* A statement fails, or the process dies: the rest is not done. *)
Fail(p) ==
    /\ faults < MaxFaults /\ faults' = faults + 1
    /\ run[p].pc # "idle"
    /\ broken' = IF run[p].pc \in {"state", "delete", "retarget"}
                 THEN broken \cup {run[p].r} ELSE broken
    /\ edit' = IF run[p].pc = "record" THEN [edit EXCEPT !.loose = TRUE] ELSE edit
    /\ Return(p)
    /\ UNCHANGED <<change, file, tip, review, begun, overwritten, landed, crossed, rewritten, forwarded, claimed, deleted>>

-----------------------------------------------------------------------------
Merging(p) == \/ BeginMerge(p)
              \/ Preview(p) \/ Checks(p) \/ Recheck(p) \/ MarkMerged(p)
              \/ DeleteSource(p) \/ Retarget(p)
Editing(p) == BeginApply(p) \/ Record(p) \/ BeginStatus(p) \/ SetStatus(p)
Stacking(p) == (\E r \in Reviews : BeginPick(p, r)) \/ BeginRestack(p) \/ Member(p)

Next ==
    \/ \E b \in Branches : Push(b)
    \/ \E r \in Reviews : Update(r)
    \/ \E p \in Clients : \/ Merging(p) \/ Editing(p) \/ Stacking(p)
                          \/ Compare(p) \/ Write(p) \/ Fail(p)

Spec == Init /\ [][Next]_vars

-----------------------------------------------------------------------------
(* Properties.                                                              *)

(* What was checked is what lands: a merge brings its target exactly the    *)
(* commits that were on the source branch when gate and CI were asked.      *)
(* Only a branch without commits of its own, which a restack moves to a     *)
(* commit that exists already, can leave the preview's commit and return.   *)
LandsWhatWasChecked == \A p \in Clients :
    run[p].pc \in {"compare", "write"} /\ run[p].kind = "merge" =>
        \/ run[p].new = run[p].checked \cup run[p].t \cup {run[p].id}
        \/ run[p].src \in forwarded

AtWork(r) == \E p \in Clients : run[p].pc \in {"state", "delete", "retarget"} /\ run[p].r = r

(* Merges that delete their source branch went round in a circle: no order  *)
(* of the branches has every source above its target.                       *)
Circle == ~\E rank \in [Branches -> 0..Cardinality(Branches)] :
                 \A e \in deleted : rank[e[1]] > rank[e[2]]

(* No pushed change is lost, but those that reached a branch after the      *)
(* command that overwrote or deleted it had last looked at it, or if merges *)
(* deleted their sources in a circle.                                       *)
LossIsExplained == WorksOf(Numbers) \cap Works \subseteq WorksOf(Reachable \cup overwritten) \/ Circle

(* A review is merged exactly when a merge of it reached its target, and    *)
(* the repository still shows the merge commit: a review without one was    *)
(* called merged by a caller of update_review, and a merge that is not      *)
(* recorded is about to be, failed right there, or was written over.        *)
MergedIsReachable == \A r \in Reviews :
    /\ review[r].state = "Merged" => landed[r] # {} \/ r \in claimed
    /\ landed[r] # {} => review[r].state = "Merged" \/ AtWork(r) \/ r \in broken \cup rewritten
    /\ landed[r] \subseteq Reachable \cup overwritten \/ Circle

(* Once a review is merged no open review of a stack waits for its source   *)
(* branch, if the merge ran to its end, did not overlap with the merge of   *)
(* the next review of the stack, and nobody wrote the rows over.            *)
ChildrenFollow == \A r \in Reviews, c \in Stacked :
    /\ review[c].state = "Opened"
    /\ review[r].state = "Merged" /\ review[c].target = review[r].source
    /\ review[r].source # review[r].target
    => AtWork(r) \/ r \in broken \cup crossed \/ {r, c} \cap rewritten # {}

(* A suggested edit reaches only a branch whose file reads as it did at the *)
(* commit the suggestion was written against, whoever applied it, reverted  *)
(* it or moved the branch since; one that moved after the comparison and    *)
(* before the forced write is the exception.                                *)
EditLandsOnItsBase == [][\A p \in Clients :
    run[p].pc = "write" /\ run'[p].pc = "record" =>
        \/ Text(tip[run[p].dst]) = Text(edit.base)
        \/ tip[run[p].dst] # run[p].seenT]_vars

(* An edit that is on a branch is not open, unless its command is about to  *)
(* record it, failed there, or a person reopened it; and one recorded as    *)
(* applied is there.                                                        *)
EditIsRecorded ==
    /\ Edit \in WorksOf(Reachable) /\ edit.status = "OPEN" =>
          edit.loose \/ \E p \in Clients : run[p].pc = "record"
    /\ edit.applied # 0 => Edit \in WorksOf(Reachable \cup overwritten) \/ Circle

(* advance_verified_ref's comment: the forced write only ever extends the   *)
(* commit that was checked and never replaces a stranger's work.            *)
NeverReplacesWork == [][tip[Trunk] \subseteq tip'[Trunk]]_vars
=============================================================================
