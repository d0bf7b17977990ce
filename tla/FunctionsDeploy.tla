--------------------------- MODULE FunctionsDeploy ---------------------------
(***************************************************************************)
(* functions deploy with the Docker bundler, and --prune, run by several   *)
(* clients against one project.                                            *)
(*                                                                         *)
(* EdgeRuntimeAPI.UpsertFunctions lists the functions of the project once, *)
(* then deploys one function after the other: unchanged ones are skipped,  *)
(* the others are updated or created according to that listing, each with  *)
(* up to MaxRetries retries.  A request or its answer may be lost, and     *)
(* another client may create, change or delete the function meanwhile.     *)
(* When more than one function was deployed, a bulk update writes all of   *)
(* them again.  pruneFunctions then deletes what the command did not       *)
(* deploy.                                                                 *)
(*                                                                         *)
(* The content of a function is the client whose code it is.               *)
(***************************************************************************)
EXTENDS Naturals, FiniteSets

CONSTANTS
  Clients,     \* the machines that deploy to the project
  Functions,   \* slugs
  Absent,      \* no such function in the project
  WithPrune,   \* may the commands have --prune?
  MaxDeploys,  \* bound: commands started
  MaxFaults    \* bound: requests and answers lost, answers 5xx, failed bundles

ASSUME AbsentAssumption == Absent \notin Clients \cup Functions
ASSUME PruneAssumption == WithPrune \in BOOLEAN
ASSUME BoundsAssumption == MaxDeploys \in Nat /\ MaxFaults \in Nat

MaxRetries == 3

VARIABLES
  remote,   \* content of each function in the project
  pc,       \* where each client's command stands
  local,    \* functions in the client's project directory
  slugs,    \* functionConfig: the functions the command was asked to deploy
  wanted,   \* those of them that are enabled
  seen,     \* the listing: content of each function
  known,    \* slugs in slugToIndex
  todo,     \* slugs the loop over functionConfig has not come to
  current,  \* the function being deployed
  tries,    \* retries of the current request so far
  updated,  \* toUpdate
  doomed,   \* toDelete
  others,   \* functions that other clients have written since the listing
  pruned,   \* has any command deleted a function?
  deploys, faults  \* counters of the bounds

command == <<local, slugs, wanted>>
bounds == <<deploys, faults>>
vars == <<remote, pc, command, seen, known, todo, current, tries, updated,
          doomed, others, pruned, bounds>>

Existing == {f \in Functions : remote[f] # Absent}

At(c, step) == pc[c] = step
Goto(c, step) == pc' = [pc EXCEPT ![c] = step]
Set(var, c, value) == [var EXCEPT ![c] = value]

\* Client c writes the functions fs: they are not the other clients' any more.
Write(c, fs, content) ==
  /\ remote' = [f \in Functions |-> IF f \in fs THEN content ELSE remote[f]]
  /\ others' = [d \in Clients |-> IF d = c THEN others[d] ELSE others[d] \cup fs]
  /\ pruned' = (pruned \/ content = Absent)

NoWrite == UNCHANGED <<remote, others, pruned>>

Lose == faults < MaxFaults /\ faults' = faults + 1

-----------------------------------------------------------------------------
(***************************************************************************)
(* Faulty variants, each a plausible slip in the code.                     *)
(***************************************************************************)

\* "Duplicated function slug" is an error like any other.
NotifyIgnores(c) == UNCHANGED known

\* Any function that exists counts as unchanged.
UnchangedIfListed(c, f) == seen[c][f] # Absent

-----------------------------------------------------------------------------
Init ==
  /\ remote \in [Functions -> Clients \cup {Absent}]
  /\ pc = [c \in Clients |-> "idle"]
  /\ local = [c \in Clients |-> {}]
  /\ slugs = local /\ wanted = local /\ known = local /\ todo = local
  /\ updated = local /\ doomed = local /\ others = local
  /\ seen = [c \in Clients |-> [f \in Functions |-> Absent]]
  /\ current = [c \in Clients |-> Absent]
  /\ tries = [c \in Clients |-> 0]
  /\ pruned = FALSE
  /\ deploys = 0 /\ faults = 0

\* deploy.Run: the functions given as arguments, or else all local ones.
Start(c) ==
  /\ pc[c] \in {"idle", "ok", "failed", "unbundled", "unpruned"}
  /\ deploys < MaxDeploys /\ deploys' = deploys + 1
  /\ \E here \in (SUBSET Functions) \ {{}} : \E args \in (SUBSET here) \ {{}} :
       \E enabled \in SUBSET args :
         /\ local' = Set(local, c, here)
         /\ slugs' = Set(slugs, c, args)
         /\ wanted' = Set(wanted, c, enabled)
         /\ todo' = Set(todo, c, enabled)
  /\ updated' = Set(updated, c, {}) /\ doomed' = Set(doomed, c, {})
  /\ tries' = Set(tries, c, 0)
  /\ Goto(c, "list")
  /\ NoWrite
  /\ UNCHANGED <<seen, known, current, faults>>

\* backoff: another attempt, or the error is returned.
Retry(c, step) ==
  IF tries[c] < MaxRetries
  THEN Goto(c, step) /\ tries' = Set(tries, c, tries[c] + 1)
  ELSE Goto(c, "failed") /\ UNCHANGED tries

\* V1ListAllFunctions answers.
List(c) ==
  /\ At(c, "list")
  /\ seen' = Set(seen, c, remote)
  /\ known' = Set(known, c, Existing)
  /\ others' = Set(others, c, {})
  /\ Goto(c, "loop")
  /\ UNCHANGED <<remote, pruned, command, todo, current, tries, updated, doomed,
                 bounds>>

\* A request does not get through, or the answer is 5xx.
RequestLost(c) ==
  /\ pc[c] \in {"list", "upsert", "bulk"}
  /\ Lose
  /\ Retry(c, pc[c])
  /\ NoWrite
  /\ UNCHANGED <<command, seen, known, todo, current, updated, doomed, deploys>>

\* The listing has the hash of the bundle.
IsUnchanged(c, f) == seen[c][f] = c

\* "No change found in Function"
Skip(c, f) ==
  /\ At(c, "loop")
  /\ f \in todo[c]
  /\ IsUnchanged(c, f)
  /\ todo' = Set(todo, c, todo[c] \ {f})
  /\ NoWrite
  /\ UNCHANGED <<pc, command, seen, known, current, tries, updated, doomed, bounds>>

Deploy(c, f) ==
  /\ At(c, "loop")
  /\ f \in todo[c]
  /\ ~IsUnchanged(c, f)
  /\ current' = Set(current, c, f)
  /\ todo' = Set(todo, c, todo[c] \ {f})
  /\ tries' = Set(tries, c, 0)
  /\ Goto(c, "upsert")
  /\ NoWrite
  /\ UNCHANGED <<command, seen, known, updated, doomed, bounds>>

\* The bundler fails: the functions before this one have been deployed.
BundleFails(c) ==
  /\ At(c, "loop")
  /\ todo[c] # {}
  /\ Lose
  /\ Goto(c, "unbundled")
  /\ NoWrite
  /\ UNCHANGED <<command, seen, known, todo, current, tries, updated, doomed, deploys>>

\* Client c is about to update the function if it knows it, or to create it;
\* the project accepts an update of what exists and a creation of what does not.
Accepted(c) == (current[c] \in known[c]) = (remote[current[c]] # Absent)

\* updateFunction or createFunction succeeds.
Upsert(c) ==
  /\ At(c, "upsert")
  /\ Accepted(c)
  /\ Write(c, {current[c]}, c)
  /\ updated' = Set(updated, c, updated[c] \cup {current[c]})
  /\ Goto(c, "loop")
  /\ UNCHANGED <<command, seen, known, todo, current, tries, doomed, bounds>>

\* It succeeds, but the answer is lost: the client tries again.
AnswerLost(c) ==
  /\ At(c, "upsert")
  /\ Accepted(c)
  /\ Lose
  /\ Write(c, {current[c]}, c)
  /\ Retry(c, "upsert")
  /\ UNCHANGED <<command, seen, known, todo, current, updated, doomed, deploys>>

\* The notify callback: a "Duplicated function slug" is updated next time.
Notify(c) == known' = Set(known, c, known[c] \cup {current[c]})

\* The project refuses to create what exists.  backoff does not notify of the
\* last error.
Duplicated(c) ==
  /\ At(c, "upsert")
  /\ current[c] \notin known[c]
  /\ remote[current[c]] # Absent
  /\ Retry(c, "upsert")
  /\ IF tries[c] < MaxRetries THEN Notify(c) ELSE UNCHANGED known
  /\ NoWrite
  /\ UNCHANGED <<command, seen, todo, current, updated, doomed, bounds>>

\* The project refuses to update what has been deleted.
NotFound(c) ==
  /\ At(c, "upsert")
  /\ current[c] \in known[c]
  /\ remote[current[c]] = Absent
  /\ Retry(c, "upsert")
  /\ NoWrite
  /\ UNCHANGED <<command, seen, known, todo, current, updated, doomed, bounds>>

\* The loop is over.  Two or more functions are bulk updated.
LoopEnds(c) ==
  /\ At(c, "loop")
  /\ todo[c] = {}
  /\ \/ Cardinality(updated[c]) > 1 /\ Goto(c, "bulk")
     \/ Cardinality(updated[c]) <= 1 /\ Goto(c, "deployed")
  /\ tries' = Set(tries, c, 0)
  /\ NoWrite
  /\ UNCHANGED <<command, seen, known, todo, current, updated, doomed, bounds>>

\* The bulk update replaces or creates every function of its body.
BulkBody(c) == updated[c]

BulkUpdate(c) ==
  /\ At(c, "bulk")
  /\ Write(c, BulkBody(c), c)
  /\ \/ Goto(c, "deployed") /\ UNCHANGED <<tries, faults>>
     \/ Retry(c, "bulk") /\ Lose
  /\ UNCHANGED <<command, seen, known, todo, current, updated, doomed, deploys>>

\* Without --prune the command is over.
Deployed(c) ==
  /\ At(c, "deployed")
  /\ \/ Goto(c, "ok")
     \/ WithPrune /\ Goto(c, "prune")
  /\ NoWrite
  /\ UNCHANGED <<command, seen, known, todo, current, tries, updated, doomed, bounds>>

\* toDelete: what exists and is not in functionConfig.
ToPrune(c) == Existing \ slugs[c]

\* pruneFunctions lists again, with no retry, and prompts.
ListPrune(c) ==
  /\ At(c, "prune")
  /\ \/ /\ doomed' = Set(doomed, c, ToPrune(c))
        /\ Goto(c, IF doomed'[c] = {} THEN "ok" ELSE "confirm")
        /\ UNCHANGED faults
     \/ Lose /\ Goto(c, "unpruned") /\ UNCHANGED doomed
  /\ NoWrite
  /\ UNCHANGED <<command, seen, known, todo, current, tries, updated, deploys>>

Confirm(c) ==
  /\ At(c, "confirm")
  /\ \/ Goto(c, "delete")
     \/ Goto(c, "unpruned")
  /\ NoWrite
  /\ UNCHANGED <<command, seen, known, todo, current, tries, updated, doomed, bounds>>

\* delete.Undeploy; a function that is gone already is no error.
Delete(c, f) ==
  /\ At(c, "delete")
  /\ f \in doomed[c]
  /\ Write(c, {f}, Absent)
  /\ \/ /\ doomed' = Set(doomed, c, doomed[c] \ {f})
        /\ Goto(c, IF doomed'[c] = {} THEN "ok" ELSE "delete")
        /\ UNCHANGED faults
     \/ Lose /\ Goto(c, "unpruned") /\ UNCHANGED doomed
  /\ UNCHANGED <<command, seen, known, todo, current, tries, updated, deploys>>

Step(c) ==
  \/ List(c) \/ RequestLost(c)
  \/ \E f \in Functions : Skip(c, f) \/ Deploy(c, f) \/ Delete(c, f)
  \/ Upsert(c) \/ AnswerLost(c) \/ Duplicated(c) \/ NotFound(c)
  \/ BundleFails(c) \/ LoopEnds(c) \/ BulkUpdate(c)
  \/ Deployed(c) \/ ListPrune(c) \/ Confirm(c)

Next == \E c \in Clients : Start(c) \/ Step(c)

Spec == Init /\ [][Next]_vars

-----------------------------------------------------------------------------
(***************************************************************************)
(* Properties                                                              *)
(***************************************************************************)

\* A command that reports success has deployed: each function it was asked for
\* has this client's code, unless another client has written it since the
\* listing.  A skip, a retry after a lost answer, the bulk update and the prune
\* of this command leave nothing undone.
SuccessIsDeployed ==
  \A c \in Clients : At(c, "ok") =>
    \A f \in wanted[c] \ others[c] : remote[f] = c

\* Clients that create the same function at the same time all succeed, even if
\* two requests or answers are lost as well ("handles concurrent deploy"): as
\* long as nobody prunes, no command runs out of retries, whatever it still has to
\* deploy.  A function that cannot be bundled is another matter.
NobodyFails == ~pruned => \A c \in Clients : ~At(c, "failed")

\* "Delete Functions that exist in Supabase project but not locally."
PruneKeepsLocal ==
  [][\A c \in Clients, f \in Functions : Delete(c, f) => f \notin local[c]]_vars
=============================================================================
