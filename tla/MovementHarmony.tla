--------------------------- MODULE MovementHarmony -------------------------
(***************************************************************************)
(* Who writes movement_analysis.events, and when: the edit requests of     *)
(* MovementAnalysisService, which lock the row before they read it, and    *)
(* the analysis tasks of ingest_analysis.py, which read it without a lock  *)
(* and later replace the whole array.                                      *)
(***************************************************************************)
EXTENDS HarmonyTimeline, Functions

CONSTANTS
    Clients,    \* edit requests in flight at the same time
    Tasks,      \* analysis tasks that run at the same time
    Sent,       \* the requests that clients send
    MaxEvents   \* bound of the model: length of the array

VARIABLES
    events,     \* movement_analysis.events
    analysed,   \* there is a movement_analysis row
    lock,       \* the edit request that holds the row lock, or Nobody
    edit,       \* what each edit request does and the array it has read
    task        \* what each analysis task does and the array it has read

vars == <<events, analysed, lock, edit, task>>

Nobody == "nobody"

Ids == [label : {Label[m] : m \in Mcs}, beat : Beats, mc : Mcs \cup {NoMc}]

\* The requests of the API.  An inserted event has the mc of a measure with
\* its label, or none; move_boundary must change the beat; a batch names the
\* events the panel shows, by their mc.
Ops ==
    [kind : {"insert"}, id : {id \in Ids : id.mc # NoMc => Label[id.mc] = id.label},
     chord : Chords]
    \cup [kind : {"delete", "confirm"}, id : Ids]
    \cup {op \in [kind : {"move"}, id : Ids, beat : Beats] : op.beat # op.id.beat}
    \cup [kind : {"chord"}, id : Ids, chord : Chords]
    \cup [kind : {"batch"}, ids : SUBSET {id \in Ids : id.mc # NoMc}]

ASSUME HarmonyAssumption ==
    /\ Nobody \notin Clients
    /\ Sent \subseteq Ops
    /\ MaxEvents \in Nat

Idle == [at |-> "idle"]

TypeOK ==
    /\ events \in Seq(Event)
    /\ analysed \in BOOLEAN
    /\ lock \in Clients \cup {Nobody}
    /\ edit \in [Clients -> {Idle} \cup [at : {"editing"}, op : Sent, read : Seq(Event)]]
    /\ task \in [Tasks -> {Idle} \cup [at : {"merging"}, tsv : Tsvs, read : Seq(Event)]]

Init ==
    /\ events = <<>>
    /\ analysed = FALSE
    /\ lock = Nobody
    /\ edit = [c \in Clients |-> Idle]
    /\ task = [t \in Tasks |-> Idle]

-----------------------------------------------------------------------------
(* Edit requests.  _load selects the row FOR UPDATE; the lock is held until *)
(* the transaction ends.                                                   *)

\* Fault: _load without with_for_update.
LoadUnlocked(c, op) ==
    /\ analysed
    /\ edit[c] = Idle
    /\ op.kind = "insert" => Len(events) < MaxEvents
    /\ edit' = [edit EXCEPT ![c] = [at |-> "editing", op |-> op, read |-> events]]
    /\ UNCHANGED <<events, analysed, lock, task>>

Load(c, op) ==
    /\ analysed
    /\ lock = Nobody
    /\ edit[c] = Idle
    /\ op.kind = "insert" => Len(events) < MaxEvents
    /\ lock' = c
    /\ edit' = [edit EXCEPT ![c] = [at |-> "editing", op |-> op, read |-> events]]
    /\ UNCHANGED <<events, analysed, task>>

Release(c) ==
    /\ edit' = [edit EXCEPT ![c] = Idle]
    /\ lock' = IF lock = c THEN Nobody ELSE lock

CommitEdit(c) ==
    /\ edit[c] # Idle
    /\ lock \in {c, Nobody}
    /\ Feasible(edit[c].read, edit[c].op)
    /\ events' = Edited(edit[c].read, edit[c].op)
    /\ Release(c)
    /\ UNCHANGED <<analysed, task>>

\* HarmonyEventNotFoundError, or the request dies: the transaction rolls back.
AbandonEdit(c) ==
    /\ edit[c] # Idle
    /\ Release(c)
    /\ UNCHANGED <<events, analysed, task>>

-----------------------------------------------------------------------------
(* Analysis tasks.                                                         *)

StartAnalysis(t, tsv) ==
    /\ task[t] = Idle
    /\ task' = [task EXCEPT ![t] = [at |-> "merging", tsv |-> tsv, read |-> events]]
    /\ UNCHANGED <<events, analysed, lock, edit>>

\* The upsert waits for the row lock, then stores the merge of what was read.
FinishAnalysis(t) ==
    /\ task[t] # Idle
    /\ lock = Nobody
    /\ LET merged == Merged(task[t].read, task[t].tsv) IN
         /\ Len(merged) <= MaxEvents
         /\ events' = merged
    /\ analysed' = TRUE
    /\ task' = [task EXCEPT ![t] = Idle]
    /\ UNCHANGED <<lock, edit>>

\* Any error before the commit leaves the row as it is.
FailAnalysis(t) ==
    /\ task[t] # Idle
    /\ task' = [task EXCEPT ![t] = Idle]
    /\ UNCHANGED <<events, analysed, lock, edit>>

Next ==
    \/ \E c \in Clients :
         \/ \E op \in Sent : Load(c, op)
         \/ CommitEdit(c)
         \/ AbandonEdit(c)
    \/ \E t \in Tasks :
         \/ \E tsv \in Tsvs : StartAnalysis(t, tsv)
         \/ FinishAnalysis(t)
         \/ FailAnalysis(t)

Spec == Init /\ [][Next]_vars

-----------------------------------------------------------------------------
(* Properties.                                                             *)

\* c ends with a new array.
Commits(c) == edit[c] # Idle /\ edit'[c] = Idle /\ events' # events

\* What _load promises of its lock: whatever an edit stores is its own edit of
\* the array as everybody else has left it, so no edit undoes another.
EditsAreIsolated ==
    [][\A c \in Clients : Commits(c) => events' = Edited(events, edit[c].op)]_vars

SetOf(es) == {es[i] : i \in DOMAIN es}

\* Measure mc of merged is that of tsv: the same events, each as often, and two
\* of them change places only for the sort to put the earlier one first.
TakenOver(merged, tsv, mc) ==
    \E from \in Bijection(OfMeasure(merged, mc), OfMeasure(tsv, mc)) :
        /\ \A i \in OfMeasure(merged, mc) : merged[i] = tsv[from[i]]
        /\ \A i, j \in OfMeasure(merged, mc) :
             i < j => from[i] < from[j] \/ InPrint(merged[i], merged[j])

\* The smart-merge policy of ADR-004, for whatever array the edits and analyses
\* of the past have left: reviewed and manual events stay, nothing unreviewed
\* of an older analysis does, and a measure that nobody has touched is taken
\* over from the new analysis as it is.
MergeFollowsPolicy ==
    \A tsv \in Tsvs :
        LET merged == Merged(events, tsv) IN
        /\ \A e \in SetOf(events) : Protected(e) => Kept(e, tsv) \in SetOf(merged)
        /\ \A e \in SetOf(merged) :
             \/ e \in SetOf(tsv)
             \/ \E old \in SetOf(events) :
                    e = Kept(old, tsv) /\ (Protected(old) \/ old.mc = NoMc)
        /\ \A mc \in Mcs :
             (\A i \in OfMeasure(events, mc) : ~Protected(events[i])) =>
                TakenOver(merged, tsv, mc)

\* An analysis must not clobber manually reviewed events: when a task stores
\* its result, every protected event of that moment is still there, at most
\* marked as orphaned.
ReviewsSurviveAnalysis ==
    [][\A t \in Tasks : task[t] # Idle /\ task'[t] = Idle =>
         \A e \in SetOf(events) :
            Protected(e) =>
                \E f \in SetOf(events') : f \in {e, Kept(e, task[t].tsv)}]_vars

=============================================================================
