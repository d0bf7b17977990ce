------------------------ MODULE FunctionsDeployProofs ------------------------
(***************************************************************************)
(* Theorems about functions deploy by several clients, for any clients,    *)
(* functions and number of commands: a success is a deployment, and as     *)
(* long as nobody prunes, two lost requests or answers make nobody fail.   *)
(***************************************************************************)
EXTENDS FunctionsDeploy, TLAPS

USE AbsentAssumption, PruneAssumption, BoundsAssumption DEF MaxRetries

Contents == Clients \cup {Absent}
Steps == {"idle", "list", "loop", "upsert", "bulk", "deployed", "prune", "confirm",
          "delete", "ok", "failed", "unbundled", "unpruned"}

\* The types that the proofs need.
DTypes ==
  /\ remote \in [Functions -> Contents]
  /\ pc \in [Clients -> Steps]
  /\ local \in [Clients -> SUBSET Functions]
  /\ slugs \in [Clients -> SUBSET Functions] /\ wanted \in [Clients -> SUBSET Functions]
  /\ known \in [Clients -> SUBSET Functions] /\ todo \in [Clients -> SUBSET Functions]
  /\ updated \in [Clients -> SUBSET Functions]
  /\ doomed \in [Clients -> SUBSET Functions]
  /\ others \in [Clients -> SUBSET Functions]
  /\ seen \in [Clients -> [Functions -> Contents]]
  /\ current \in [Clients -> Functions \cup {Absent}]
  /\ \A c \in Clients : At(c, "upsert") => current[c] \in Functions
  /\ tries \in [Clients -> Nat]
  /\ pruned \in BOOLEAN /\ deploys \in Nat /\ faults \in 0 .. MaxFaults

-----------------------------------------------------------------------------
(***************************************************************************)
(* Types                                                                   *)
(***************************************************************************)

LEMMA InitTypes == Init => DTypes
<1> SUFFICES ASSUME Init
             PROVE  DTypes
  OBVIOUS
<1>1. local \in [Clients -> SUBSET Functions] /\ pc \in [Clients -> Steps]
  BY DEF Init, Steps
<1>2. /\ slugs = local /\ wanted = local /\ known = local /\ todo = local
      /\ updated = local /\ doomed = local /\ others = local
  BY DEF Init
<1>3. /\ remote \in [Functions -> Contents]
      /\ current \in [Clients -> Functions \cup {Absent}]
      /\ tries \in [Clients -> Nat]
      /\ deploys \in Nat /\ faults \in 0 .. MaxFaults
  BY DEF Init, Contents
<1>4. \A c \in Clients : ~At(c, "upsert")
  BY DEF Init, At
<1>5. seen \in [Clients -> [Functions -> Contents]]
  BY DEF Init, Contents
<1> QED
  BY <1>1, <1>2, <1>3, <1>4, <1>5 DEF DTypes, Init

\* What a write does to the project and to the other clients' bookkeeping.
LEMMA WriteTypes ==
  ASSUME DTypes, NEW c \in Clients, NEW fs \in SUBSET Functions,
         NEW content \in {c, Absent}, Write(c, fs, content)
  PROVE  /\ remote' \in [Functions -> Contents]
         /\ others' \in [Clients -> SUBSET Functions]
         /\ pruned' \in BOOLEAN
<1>1. \A f \in Functions : (IF f \in fs THEN content ELSE remote[f]) \in Contents
  BY DEF DTypes, Contents
<1>2. \A d \in Clients :
        (IF d = c THEN others[d] ELSE others[d] \cup fs) \in SUBSET Functions
  BY DEF DTypes
<1>3. pruned' \in BOOLEAN
  BY DEF Write
<1>4. /\ remote' = [f \in Functions |-> IF f \in fs THEN content ELSE remote[f]]
      /\ others' = [d \in Clients |-> IF d = c THEN others[d] ELSE others[d] \cup fs]
  BY DEF Write
<1> QED
  BY <1>1, <1>2, <1>3, <1>4

\* A retry stays at its step or fails.
LEMMA RetryTypes ==
  ASSUME DTypes, NEW c \in Clients, NEW step \in Steps, Retry(c, step)
  PROVE  /\ pc' \in [Clients -> Steps] /\ tries' \in [Clients -> Nat]
         /\ pc'[c] \in {step, "failed"}
         /\ \A d \in Clients : d # c => pc'[d] = pc[d]
<1>1. CASE tries[c] < MaxRetries
  <2>1. /\ pc' = [pc EXCEPT ![c] = step]
        /\ tries' = [tries EXCEPT ![c] = tries[c] + 1]
    BY <1>1 DEF Retry, Goto, Set
  <2> QED
    BY <2>1 DEF DTypes
<1>2. CASE ~(tries[c] < MaxRetries)
  <2>1. pc' = [pc EXCEPT ![c] = "failed"] /\ tries' = tries
    BY <1>2 DEF Retry, Goto
  <2> QED
    BY <2>1 DEF DTypes, Steps
<1> QED
  BY <1>1, <1>2

\* The step of a client sets its own program counter.
LEMMA GotoTypes ==
  ASSUME DTypes, NEW c \in Clients, NEW step \in Steps, Goto(c, step)
  PROVE  /\ pc' \in [Clients -> Steps]
         /\ pc'[c] = step
         /\ \A d \in Clients : d # c => pc'[d] = pc[d]
BY DEF DTypes, Goto

\* The function a client is deploying is known when it is left alone.
LEMMA CurrentTypes ==
  ASSUME DTypes, current' = current,
         \A d \in Clients : pc'[d] = "upsert" => pc[d] = "upsert"
  PROVE  \A d \in Clients : At(d, "upsert")' => current'[d] \in Functions
BY DEF DTypes, At

LEMMA StepTypes == DTypes /\ [Next]_vars => DTypes'
<1> SUFFICES ASSUME DTypes, [Next]_vars
             PROVE  DTypes'
  OBVIOUS
<1>1. ASSUME NEW c \in Clients, Start(c)
      PROVE  DTypes'
  <2>1. PICK here \in SUBSET Functions, args \in SUBSET Functions,
             enabled \in SUBSET Functions :
          /\ local' = [local EXCEPT ![c] = here]
          /\ slugs' = [slugs EXCEPT ![c] = args]
          /\ wanted' = [wanted EXCEPT ![c] = enabled]
          /\ todo' = [todo EXCEPT ![c] = enabled]
    <3>1. PICK here \in (SUBSET Functions) \ {{}} : \E args \in (SUBSET here) \ {{}} :
            \E enabled \in SUBSET args :
              /\ local' = [local EXCEPT ![c] = here]
              /\ slugs' = [slugs EXCEPT ![c] = args]
              /\ wanted' = [wanted EXCEPT ![c] = enabled]
              /\ todo' = [todo EXCEPT ![c] = enabled]
      BY <1>1 DEF Start, Set
    <3> QED
      BY <3>1
  <2>3. /\ local' \in [Clients -> SUBSET Functions]
        /\ slugs' \in [Clients -> SUBSET Functions]
        /\ wanted' \in [Clients -> SUBSET Functions]
        /\ todo' \in [Clients -> SUBSET Functions]
    BY <2>1 DEF DTypes
  <2>4. /\ updated' = [updated EXCEPT ![c] = {}]
        /\ doomed' = [doomed EXCEPT ![c] = {}]
        /\ tries' = [tries EXCEPT ![c] = 0] /\ deploys' = deploys + 1
        /\ Goto(c, "list")
        /\ UNCHANGED <<remote, others, pruned, seen, known, current, faults>>
    BY <1>1 DEF Start, Set, NoWrite
  <2>5. /\ pc' \in [Clients -> Steps]
        /\ \A d \in Clients : pc'[d] = "upsert" => pc[d] = "upsert"
    BY <2>4, GotoTypes DEF Steps
  <2>6. \A d \in Clients : At(d, "upsert")' => current'[d] \in Functions
    BY <2>4, <2>5, CurrentTypes
  <2>7. /\ updated' \in [Clients -> SUBSET Functions]
        /\ doomed' \in [Clients -> SUBSET Functions]
        /\ tries' \in [Clients -> Nat] /\ deploys' \in Nat
    BY <2>4 DEF DTypes
  <2> QED
    BY <2>3, <2>4, <2>5, <2>6, <2>7 DEF DTypes
<1>2. ASSUME NEW c \in Clients, List(c)
      PROVE  DTypes'
  <2>1. /\ seen' = [seen EXCEPT ![c] = remote]
        /\ known' = [known EXCEPT ![c] = Existing]
        /\ others' = [others EXCEPT ![c] = {}]
        /\ Goto(c, "loop")
        /\ UNCHANGED <<remote, pruned, local, slugs, wanted, todo, current, tries,
                       updated, doomed, deploys, faults>>
    BY <1>2 DEF List, Set, command, bounds
  <2>2. /\ pc' \in [Clients -> Steps]
        /\ \A d \in Clients : pc'[d] = "upsert" => pc[d] = "upsert"
    BY <2>1, GotoTypes DEF Steps
  <2>3. \A d \in Clients : At(d, "upsert")' => current'[d] \in Functions
    BY <2>1, <2>2, CurrentTypes
  <2>4. Existing \in SUBSET Functions
    BY DEF Existing
  <2> QED
    BY <2>1, <2>2, <2>3, <2>4 DEF DTypes
<1>3. ASSUME NEW c \in Clients, RequestLost(c)
      PROVE  DTypes'
  <2>1. /\ pc[c] \in Steps
        /\ Retry(c, pc[c]) /\ faults < MaxFaults /\ faults' = faults + 1
        /\ UNCHANGED <<remote, others, pruned, local, slugs, wanted, seen, known,
                       todo, current, updated, doomed, deploys>>
    BY <1>3 DEF RequestLost, Lose, NoWrite, command, DTypes
  <2>2. /\ pc' \in [Clients -> Steps] /\ tries' \in [Clients -> Nat]
        /\ \A d \in Clients : pc'[d] = "upsert" => pc[d] = "upsert"
    BY <2>1, RetryTypes
  <2>3. \A d \in Clients : At(d, "upsert")' => current'[d] \in Functions
    BY <2>1, <2>2, CurrentTypes
  <2> QED
    BY <2>1, <2>2, <2>3 DEF DTypes
<1>4. ASSUME NEW c \in Clients, NEW f \in Functions, Skip(c, f)
      PROVE  DTypes'
  <2>1. /\ todo' = [todo EXCEPT ![c] = todo[c] \ {f}]
        /\ UNCHANGED <<remote, others, pruned, pc, local, slugs, wanted, seen, known,
                       current, tries, updated, doomed, deploys, faults>>
    BY <1>4 DEF Skip, Set, NoWrite, command, bounds
  <2> QED
    BY <2>1 DEF DTypes, At
<1>5. ASSUME NEW c \in Clients, NEW f \in Functions, Deploy(c, f)
      PROVE  DTypes'
  <2>1. /\ current' = [current EXCEPT ![c] = f]
        /\ todo' = [todo EXCEPT ![c] = todo[c] \ {f}]
        /\ tries' = [tries EXCEPT ![c] = 0]
        /\ Goto(c, "upsert")
        /\ UNCHANGED <<remote, others, pruned, local, slugs, wanted, seen, known,
                       updated, doomed, deploys, faults>>
    BY <1>5 DEF Deploy, Set, NoWrite, command, bounds
  <2>2. /\ pc' \in [Clients -> Steps]
        /\ \A d \in Clients : d # c => pc'[d] = pc[d]
    BY <2>1, GotoTypes DEF Steps
  <2>3. \A d \in Clients : At(d, "upsert")' => current'[d] \in Functions
    BY <2>1, <2>2 DEF DTypes, At
  <2> QED
    BY <2>1, <2>2, <2>3 DEF DTypes
<1>6. ASSUME NEW c \in Clients, BundleFails(c)
      PROVE  DTypes'
  <2>1. /\ faults < MaxFaults /\ faults' = faults + 1
        /\ Goto(c, "unbundled")
        /\ UNCHANGED <<remote, others, pruned, local, slugs, wanted, seen, known, todo,
                       current, tries, updated, doomed, deploys>>
    BY <1>6 DEF BundleFails, Lose, NoWrite, command
  <2>2. /\ pc' \in [Clients -> Steps]
        /\ \A d \in Clients : pc'[d] = "upsert" => pc[d] = "upsert"
    BY <2>1, GotoTypes DEF Steps
  <2>3. \A d \in Clients : At(d, "upsert")' => current'[d] \in Functions
    BY <2>1, <2>2, CurrentTypes
  <2> QED
    BY <2>1, <2>2, <2>3 DEF DTypes
<1>7. ASSUME NEW c \in Clients, Upsert(c)
      PROVE  DTypes'
  <2>1. /\ Write(c, {current[c]}, c)
        /\ updated' = [updated EXCEPT ![c] = updated[c] \cup {current[c]}]
        /\ Goto(c, "loop")
        /\ UNCHANGED <<local, slugs, wanted, seen, known, todo, current, tries, doomed,
                       deploys, faults>>
        /\ current[c] \in Functions
    BY <1>7 DEF Upsert, Set, command, bounds, DTypes
  <2>2. /\ pc' \in [Clients -> Steps]
        /\ \A d \in Clients : pc'[d] = "upsert" => pc[d] = "upsert"
    BY <2>1, GotoTypes DEF Steps
  <2>3. \A d \in Clients : At(d, "upsert")' => current'[d] \in Functions
    BY <2>1, <2>2, CurrentTypes
  <2>4. /\ remote' \in [Functions -> Contents] /\ pruned' \in BOOLEAN
        /\ others' \in [Clients -> SUBSET Functions]
    BY <2>1, WriteTypes
  <2> QED
    BY <2>1, <2>2, <2>3, <2>4 DEF DTypes
<1>8. ASSUME NEW c \in Clients, AnswerLost(c)
      PROVE  DTypes'
  <2>1. /\ Write(c, {current[c]}, c)
        /\ faults < MaxFaults /\ faults' = faults + 1
        /\ Retry(c, "upsert")
        /\ UNCHANGED <<local, slugs, wanted, seen, known, todo, current, updated, doomed,
                       deploys>>
        /\ current[c] \in Functions /\ pc[c] = "upsert"
    BY <1>8 DEF AnswerLost, Lose, command, DTypes, At
  <2>2. /\ pc' \in [Clients -> Steps] /\ tries' \in [Clients -> Nat]
        /\ \A d \in Clients : pc'[d] = "upsert" => pc[d] = "upsert"
    BY <2>1, RetryTypes DEF Steps
  <2>3. \A d \in Clients : At(d, "upsert")' => current'[d] \in Functions
    BY <2>1, <2>2, CurrentTypes
  <2>4. /\ remote' \in [Functions -> Contents] /\ pruned' \in BOOLEAN
        /\ others' \in [Clients -> SUBSET Functions]
    BY <2>1, WriteTypes
  <2> QED
    BY <2>1, <2>2, <2>3, <2>4 DEF DTypes
<1>9. ASSUME NEW c \in Clients, Duplicated(c) \/ NotFound(c)
      PROVE  DTypes'
  <2>1. /\ Retry(c, "upsert")
        /\ known' = known \/ known' = [known EXCEPT ![c] = known[c] \cup {current[c]}]
        /\ UNCHANGED <<remote, others, pruned, local, slugs, wanted, seen, todo,
                       current, updated, doomed, deploys, faults>>
        /\ current[c] \in Functions /\ pc[c] = "upsert"
    BY <1>9 DEF Duplicated, NotFound, Notify, Set, NoWrite, command, bounds, DTypes, At
  <2>2. /\ pc' \in [Clients -> Steps] /\ tries' \in [Clients -> Nat]
        /\ \A d \in Clients : pc'[d] = "upsert" => pc[d] = "upsert"
    BY <2>1, RetryTypes DEF Steps
  <2>3. \A d \in Clients : At(d, "upsert")' => current'[d] \in Functions
    BY <2>1, <2>2, CurrentTypes
  <2>4. known' \in [Clients -> SUBSET Functions]
    <3>1. known[c] \cup {current[c]} \in SUBSET Functions
      BY <2>1 DEF DTypes
    <3> QED
      BY <2>1, <3>1 DEF DTypes
  <2> QED
    BY <2>1, <2>2, <2>3, <2>4 DEF DTypes
<1>10. ASSUME NEW c \in Clients, LoopEnds(c)
       PROVE  DTypes'
  <2>1. /\ \E step \in {"bulk", "deployed"} : Goto(c, step)
        /\ tries' = [tries EXCEPT ![c] = 0]
        /\ UNCHANGED <<remote, others, pruned, local, slugs, wanted, seen, known, todo,
                       current, updated, doomed, deploys, faults>>
    BY <1>10 DEF LoopEnds, Set, NoWrite, command, bounds
  <2>2. /\ pc' \in [Clients -> Steps]
        /\ \A d \in Clients : pc'[d] = "upsert" => pc[d] = "upsert"
    BY <2>1, GotoTypes DEF Steps
  <2>3. \A d \in Clients : At(d, "upsert")' => current'[d] \in Functions
    BY <2>1, <2>2, CurrentTypes
  <2> QED
    BY <2>1, <2>2, <2>3 DEF DTypes
<1>11. ASSUME NEW c \in Clients, BulkUpdate(c)
       PROVE  DTypes'
  <2>1. /\ Write(c, updated[c], c)
        /\ UNCHANGED <<local, slugs, wanted, seen, known, todo, current, updated, doomed,
                       deploys>>
        /\ pc[c] = "bulk"
    BY <1>11 DEF BulkUpdate, BulkBody, command, At
  <2>2. /\ pc' \in [Clients -> Steps] /\ tries' \in [Clients -> Nat]
        /\ faults' \in 0 .. MaxFaults
        /\ \A d \in Clients : pc'[d] = "upsert" => pc[d] = "upsert"
    <3>1. CASE Goto(c, "deployed") /\ UNCHANGED <<tries, faults>>
      BY <3>1, GotoTypes DEF Steps, DTypes
    <3>2. CASE Retry(c, "bulk") /\ Lose
      <4>1. faults' \in 0 .. MaxFaults
        BY <3>2 DEF Lose, DTypes
      <4> QED
        BY <3>2, <4>1, RetryTypes DEF Steps
    <3> QED
      BY <1>11, <3>1, <3>2 DEF BulkUpdate
  <2>3. \A d \in Clients : At(d, "upsert")' => current'[d] \in Functions
    BY <2>1, <2>2, CurrentTypes
  <2>4. updated[c] \in SUBSET Functions
    BY DEF DTypes
  <2>5. /\ remote' \in [Functions -> Contents] /\ pruned' \in BOOLEAN
        /\ others' \in [Clients -> SUBSET Functions]
    BY <2>1, <2>4, WriteTypes
  <2> QED
    BY <2>1, <2>2, <2>3, <2>5 DEF DTypes
<1>12. ASSUME NEW c \in Clients, Deployed(c) \/ Confirm(c)
       PROVE  DTypes'
  <2>1. /\ \E step \in {"ok", "prune", "delete", "unpruned"} : Goto(c, step)
        /\ UNCHANGED <<remote, others, pruned, local, slugs, wanted, seen, known, todo,
                       current, tries, updated, doomed, deploys, faults>>
    BY <1>12 DEF Deployed, Confirm, NoWrite, command, bounds
  <2>2. /\ pc' \in [Clients -> Steps]
        /\ \A d \in Clients : pc'[d] = "upsert" => pc[d] = "upsert"
    BY <2>1, GotoTypes DEF Steps
  <2>3. \A d \in Clients : At(d, "upsert")' => current'[d] \in Functions
    BY <2>1, <2>2, CurrentTypes
  <2> QED
    BY <2>1, <2>2, <2>3 DEF DTypes
<1>13. ASSUME NEW c \in Clients, ListPrune(c)
       PROVE  DTypes'
  <2>1. /\ UNCHANGED <<remote, others, pruned, local, slugs, wanted, seen, known, todo,
                       current, tries, updated, deploys>>
        /\ \/ /\ doomed' = [doomed EXCEPT ![c] = ToPrune(c)]
              /\ Goto(c, IF doomed'[c] = {} THEN "ok" ELSE "confirm")
              /\ faults' = faults
           \/ Lose /\ Goto(c, "unpruned") /\ doomed' = doomed
    BY <1>13 DEF ListPrune, Set, NoWrite, command
  <2>5. /\ \E step \in {"ok", "confirm", "unpruned"} : Goto(c, step)
        /\ doomed' = doomed \/ doomed' = [doomed EXCEPT ![c] = ToPrune(c)]
    BY <2>1
  <2>6. faults' \in 0 .. MaxFaults
    BY <2>1 DEF Lose, DTypes
  <2>2. /\ pc' \in [Clients -> Steps]
        /\ \A d \in Clients : pc'[d] = "upsert" => pc[d] = "upsert"
    BY <2>5, GotoTypes DEF Steps
  <2>3. \A d \in Clients : At(d, "upsert")' => current'[d] \in Functions
    BY <2>1, <2>2, CurrentTypes
  <2>4. doomed' \in [Clients -> SUBSET Functions]
    <3>1. ToPrune(c) \in SUBSET Functions
      BY DEF ToPrune, Existing
    <3>2. CASE doomed' = [doomed EXCEPT ![c] = ToPrune(c)]
      BY <3>1, <3>2 DEF DTypes
    <3>3. CASE doomed' = doomed
      BY <3>3 DEF DTypes
    <3> QED
      BY <2>5, <3>2, <3>3
  <2> QED
    BY <2>1, <2>2, <2>3, <2>4, <2>6 DEF DTypes
<1>14. ASSUME NEW c \in Clients, NEW f \in Functions, Delete(c, f)
       PROVE  DTypes'
  <2>1. /\ Write(c, {f}, Absent)
        /\ UNCHANGED <<local, slugs, wanted, seen, known, todo, current, tries, updated,
                       deploys>>
        /\ \/ /\ doomed' = [doomed EXCEPT ![c] = doomed[c] \ {f}]
              /\ Goto(c, IF doomed'[c] = {} THEN "ok" ELSE "delete")
              /\ faults' = faults
           \/ Lose /\ Goto(c, "unpruned") /\ doomed' = doomed
    BY <1>14 DEF Delete, Set, command
  <2>5. /\ \E step \in {"ok", "delete", "unpruned"} : Goto(c, step)
        /\ doomed' = doomed \/ doomed' = [doomed EXCEPT ![c] = doomed[c] \ {f}]
    BY <2>1
  <2>6. faults' \in 0 .. MaxFaults
    BY <2>1 DEF Lose, DTypes
  <2>7. doomed' \in [Clients -> SUBSET Functions]
    <3>1. CASE doomed' = [doomed EXCEPT ![c] = doomed[c] \ {f}]
      BY <3>1 DEF DTypes
    <3>2. CASE doomed' = doomed
      BY <3>2 DEF DTypes
    <3> QED
      BY <2>5, <3>1, <3>2
  <2>2. /\ pc' \in [Clients -> Steps]
        /\ \A d \in Clients : pc'[d] = "upsert" => pc[d] = "upsert"
    BY <2>5, GotoTypes DEF Steps
  <2>3. \A d \in Clients : At(d, "upsert")' => current'[d] \in Functions
    BY <2>1, <2>2, CurrentTypes
  <2>4. /\ remote' \in [Functions -> Contents] /\ pruned' \in BOOLEAN
        /\ others' \in [Clients -> SUBSET Functions]
    BY <2>1, WriteTypes
  <2> QED
    BY <2>1, <2>2, <2>3, <2>4, <2>6, <2>7 DEF DTypes
<1>15. CASE UNCHANGED vars
  BY <1>15 DEF vars, command, bounds, DTypes, At
<1> QED
  BY <1>1, <1>2, <1>3, <1>4, <1>5, <1>6, <1>7, <1>8, <1>9, <1>10, <1>11, <1>12,
     <1>13, <1>14, <1>15 DEF Next, Step

THEOREM DeployTypes == Spec => []DTypes
  BY InitTypes, StepTypes, PTL DEF Spec

-----------------------------------------------------------------------------
(***************************************************************************)
(* What a client's step does to the commands of the others                 *)
(***************************************************************************)

\* Nothing, but that functions are written: those become others' functions.
Frame(c) ==
  \A d \in Clients \ {c} :
    /\ pc'[d] = pc[d] /\ slugs'[d] = slugs[d] /\ wanted'[d] = wanted[d]
    /\ seen'[d] = seen[d] /\ known'[d] = known[d] /\ todo'[d] = todo[d]
    /\ current'[d] = current[d] /\ tries'[d] = tries[d] /\ doomed'[d] = doomed[d]
    /\ others[d] \subseteq others'[d]
    /\ \A f \in Functions : remote'[f] = remote[f] \/ f \in others'[d]

LEMMA WriteFrame ==
  ASSUME DTypes, NEW c \in Clients, NEW fs \in SUBSET Functions, NEW content,
         Write(c, fs, content), NEW d \in Clients \ {c}
  PROVE  /\ others[d] \subseteq others'[d]
         /\ \A f \in Functions : remote'[f] = remote[f] \/ f \in others'[d]
<1>1. others'[d] = others[d] \cup fs
  BY DEF Write
<1>2. \A f \in Functions : f \notin fs => remote'[f] = remote[f]
  BY DEF Write
<1> QED
  BY <1>1, <1>2

LEMMA FrameStep ==
  ASSUME DTypes, NEW c \in Clients, Start(c) \/ Step(c)
  PROVE  Frame(c)
<1> SUFFICES ASSUME NEW d \in Clients \ {c}
             PROVE  /\ pc'[d] = pc[d] /\ slugs'[d] = slugs[d] /\ wanted'[d] = wanted[d]
                    /\ seen'[d] = seen[d] /\ known'[d] = known[d] /\ todo'[d] = todo[d]
                    /\ current'[d] = current[d] /\ tries'[d] = tries[d]
                    /\ doomed'[d] = doomed[d]
                    /\ others[d] \subseteq others'[d]
                    /\ \A f \in Functions : remote'[f] = remote[f] \/ f \in others'[d]
  BY DEF Frame
<1>1. CASE Start(c) \/ List(c)
  BY <1>1 DEF Start, List, DTypes, Set, Goto, NoWrite, command, bounds
<1>2. CASE RequestLost(c)
  BY <1>2 DEF RequestLost, DTypes, Retry, Set, Goto, NoWrite, command
<1>3. ASSUME NEW f \in Functions, Skip(c, f) \/ Deploy(c, f)
      PROVE  /\ pc'[d] = pc[d] /\ current'[d] = current[d] /\ tries'[d] = tries[d]
             /\ todo'[d] = todo[d]
             /\ UNCHANGED <<slugs, wanted, seen, known, doomed, others, remote>>
  BY <1>3 DEF Skip, Deploy, DTypes, Set, Goto, NoWrite, command, bounds
<1>4. CASE BundleFails(c) \/ LoopEnds(c) \/ Deployed(c) \/ Confirm(c)
  BY <1>4 DEF BundleFails, LoopEnds, Deployed, Confirm, DTypes, Set, Goto, NoWrite,
              command, bounds
<1>5. CASE Duplicated(c) \/ NotFound(c)
  BY <1>5 DEF Duplicated, NotFound, Notify, DTypes, Retry, Set, Goto, NoWrite,
              command, bounds
<1>6. CASE ListPrune(c)
  <2>1. /\ \E step : Goto(c, step)
        /\ doomed' = doomed \/ doomed' = [doomed EXCEPT ![c] = ToPrune(c)]
        /\ UNCHANGED <<remote, others, slugs, wanted, seen, known, todo, current, tries>>
    BY <1>6 DEF ListPrune, Set, NoWrite, command
  <2> QED
    BY <2>1 DEF DTypes, Goto
<1>7. CASE Upsert(c) \/ AnswerLost(c)
  <2>1. /\ pc'[d] = pc[d] /\ tries'[d] = tries[d]
        /\ UNCHANGED <<slugs, wanted, seen, known, todo, current, doomed>>
        /\ Write(c, {current[c]}, c)
    BY <1>7 DEF Upsert, AnswerLost, DTypes, Retry, Set, Goto, command, bounds
  <2>2. {current[c]} \in SUBSET Functions
    BY <1>7 DEF Upsert, AnswerLost, DTypes
  <2> QED
    BY <2>1, <2>2, WriteFrame
<1>8. CASE BulkUpdate(c)
  <2>1. /\ pc'[d] = pc[d] /\ tries'[d] = tries[d]
        /\ UNCHANGED <<slugs, wanted, seen, known, todo, current, doomed>>
        /\ Write(c, updated[c], c)
    BY <1>8 DEF BulkUpdate, BulkBody, DTypes, Retry, Set, Goto, command, bounds
  <2>2. updated[c] \in SUBSET Functions
    BY DEF DTypes
  <2> QED
    BY <2>1, <2>2, WriteFrame
<1>9. ASSUME NEW f \in Functions, Delete(c, f)
      PROVE  /\ pc'[d] = pc[d] /\ tries'[d] = tries[d] /\ doomed'[d] = doomed[d]
             /\ UNCHANGED <<slugs, wanted, seen, known, todo, current>>
             /\ others[d] \subseteq others'[d]
             /\ \A g \in Functions : remote'[g] = remote[g] \/ g \in others'[d]
  <2>1. /\ \E step : Goto(c, step)
        /\ doomed' = doomed \/ doomed' = [doomed EXCEPT ![c] = doomed[c] \ {f}]
        /\ UNCHANGED <<slugs, wanted, seen, known, todo, current, tries>>
        /\ Write(c, {f}, Absent)
    BY <1>9 DEF Delete, Set, command
  <2>2. doomed'[d] = doomed[d]
    BY <2>1 DEF DTypes
  <2>3. pc'[d] = pc[d]
    BY <2>1 DEF DTypes, Goto
  <2> QED
    BY <2>1, <2>2, <2>3, WriteFrame
<1> QED
  BY <1>1, <1>2, <1>3, <1>4, <1>5, <1>6, <1>7, <1>8, <1>9 DEF Step

-----------------------------------------------------------------------------
(***************************************************************************)
(* A success is a deployment                                               *)
(***************************************************************************)

\* The steps after the listing of a command that has not failed.
Underway ==
  {"loop", "upsert", "bulk", "deployed", "prune", "confirm", "delete", "ok"}

\* Every enabled function, but for those that others have written, is deployed,
\* or is being deployed, or is still to come and is as it was in the listing.
Covered(c) ==
  /\ pc[c] = "list" => wanted[c] \subseteq todo[c]
  /\ pc[c] \in Underway =>
    \A f \in wanted[c] \ others[c] :
      \/ remote[f] = c
      \/ pc[c] \in {"loop", "upsert"} /\ f \in todo[c] /\ remote[f] = seen[c][f]
      \/ pc[c] = "upsert" /\ f = current[c]

\* A command prunes nothing that it was asked to deploy.
Spared(c) == wanted[c] \subseteq slugs[c] /\ doomed[c] \cap slugs[c] = {}

SInv == \A c \in Clients : Spared(c) /\ Covered(c)

LEMMA InitSInv == Init => SInv
<1> SUFFICES ASSUME Init, NEW c \in Clients
             PROVE  Spared(c) /\ Covered(c)
  BY DEF SInv
<1>1. pc[c] = "idle" /\ wanted[c] = {} /\ doomed[c] = {}
  BY DEF Init
<1> QED
  BY <1>1 DEF Spared, Covered, Underway

\* A step that leaves a command alone does not undo what it has done.
LEMMA FrameSInv ==
  ASSUME DTypes, SInv, NEW c \in Clients, Frame(c), NEW d \in Clients \ {c}
  PROVE  Spared(d)' /\ Covered(d)'
<1>1. /\ pc'[d] = pc[d] /\ slugs'[d] = slugs[d] /\ wanted'[d] = wanted[d]
      /\ seen'[d] = seen[d] /\ todo'[d] = todo[d]
      /\ current'[d] = current[d] /\ doomed'[d] = doomed[d]
      /\ others[d] \subseteq others'[d]
      /\ \A f \in Functions : remote'[f] = remote[f] \/ f \in others'[d]
  BY DEF Frame
<1>2. Spared(d) /\ Covered(d) /\ wanted[d] \subseteq Functions
  BY DEF SInv, DTypes
<1> QED
  BY <1>1, <1>2 DEF Spared, Covered

\* What a client writes, and what it leaves as it is.
LEMMA WriteOwn ==
  ASSUME DTypes, NEW c \in Clients, NEW fs \in SUBSET Functions, NEW content,
         Write(c, fs, content)
  PROVE  /\ others'[c] = others[c]
         /\ \A f \in fs : remote'[f] = content
         /\ \A f \in Functions \ fs : remote'[f] = remote[f]
BY DEF Write

LEMMA OwnSInv ==
  ASSUME DTypes, SInv, NEW c \in Clients, Start(c) \/ Step(c)
  PROVE  Spared(c)' /\ Covered(c)'
<1>1. Spared(c) /\ Covered(c) /\ wanted[c] \subseteq Functions
  BY DEF SInv, DTypes
<1>2. ASSUME UNCHANGED <<slugs, wanted, doomed, others, remote, seen, todo, current>>,
             NEW step, pc'[c] = step, step # "list",
             \/ step \notin Underway
             \/ step = pc[c]
             \/ pc[c] \in Underway \ {"loop", "upsert"}
             \/ pc[c] = "loop" /\ todo[c] = {}
      PROVE  Spared(c)' /\ Covered(c)'
  BY <1>1, <1>2 DEF Spared, Covered, Underway
<1>3. CASE Start(c)
  <2>1. /\ pc'[c] = "list" /\ doomed'[c] = {} /\ wanted'[c] \subseteq slugs'[c]
        /\ todo'[c] = wanted'[c]
    BY <1>3 DEF Start, Goto, Set, DTypes
  <2> QED
    BY <2>1 DEF Spared, Covered, Underway
<1>4. CASE List(c)
  <2>1. /\ UNCHANGED <<slugs, wanted, doomed, remote, todo>>
        /\ pc[c] = "list" /\ pc'[c] = "loop" /\ seen'[c] = remote
    BY <1>4 DEF List, At, Goto, Set, command, DTypes
  <2> QED
    BY <1>1, <2>1 DEF Spared, Covered, Underway
<1>5. CASE RequestLost(c)
  <2>1. /\ UNCHANGED <<slugs, wanted, doomed, others, remote, seen, todo, current>>
        /\ pc'[c] \in {pc[c], "failed"}
    BY <1>5, RetryTypes DEF RequestLost, NoWrite, command, DTypes
  <2> QED
    BY <1>1, <2>1 DEF Spared, Covered, Underway
<1>6. ASSUME NEW f \in Functions, Skip(c, f)
      PROVE  Spared(c)' /\ Covered(c)'
  <2>1. /\ UNCHANGED <<pc, slugs, wanted, doomed, others, remote, seen>>
        /\ pc[c] = "loop" /\ seen[c][f] = c /\ todo'[c] = todo[c] \ {f}
    BY <1>6 DEF Skip, IsUnchanged, At, NoWrite, Set, command, DTypes
  <2> QED
    BY <1>1, <2>1 DEF Spared, Covered, Underway
<1>7. ASSUME NEW f \in Functions, Deploy(c, f)
      PROVE  Spared(c)' /\ Covered(c)'
  <2>1. /\ UNCHANGED <<slugs, wanted, doomed, others, remote, seen>>
        /\ pc[c] = "loop" /\ pc'[c] = "upsert"
        /\ todo'[c] = todo[c] \ {f} /\ current'[c] = f
    BY <1>7 DEF Deploy, At, Goto, NoWrite, Set, command, DTypes
  <2> QED
    BY <1>1, <2>1 DEF Spared, Covered, Underway
<1>8. CASE BundleFails(c)
  <2>1. /\ UNCHANGED <<slugs, wanted, doomed, others, remote, seen, todo, current>>
        /\ pc'[c] = "unbundled"
    BY <1>8 DEF BundleFails, NoWrite, Goto, command, DTypes
  <2> QED
    BY <1>2, <2>1 DEF Underway
<1>9. CASE Upsert(c) \/ AnswerLost(c)
  <2>1. /\ UNCHANGED <<slugs, wanted, doomed, seen, todo, current>>
        /\ pc[c] = "upsert" /\ pc'[c] \in {"loop", "upsert", "failed"}
        /\ Write(c, {current[c]}, c)
    BY <1>9, RetryTypes
       DEF Upsert, AnswerLost, At, Goto, command, bounds, DTypes, Steps
  <2>2. {current[c]} \in SUBSET Functions
    BY <2>1 DEF DTypes, At
  <2>3. /\ others'[c] = others[c] /\ remote'[current[c]] = c
        /\ \A f \in Functions : f # current[c] => remote'[f] = remote[f]
    BY <2>1, <2>2, WriteOwn
  <2> QED
    BY <1>1, <2>1, <2>3 DEF Spared, Covered, Underway
<1>10. CASE Duplicated(c) \/ NotFound(c)
  <2>1. /\ UNCHANGED <<slugs, wanted, doomed, others, remote, seen, todo, current>>
        /\ pc[c] = "upsert" /\ pc'[c] \in {"upsert", "failed"}
    BY <1>10, RetryTypes
       DEF Duplicated, NotFound, At, NoWrite, command, bounds, Steps
  <2> QED
    BY <1>2, <2>1 DEF Underway
<1>11. CASE LoopEnds(c)
  <2>1. /\ UNCHANGED <<slugs, wanted, doomed, others, remote, seen, todo, current>>
        /\ pc[c] = "loop" /\ todo[c] = {} /\ pc'[c] \in {"bulk", "deployed"}
    BY <1>11 DEF LoopEnds, At, Goto, NoWrite, command, bounds, DTypes
  <2> QED
    BY <1>2, <2>1
<1>12. CASE BulkUpdate(c)
  <2>1. /\ UNCHANGED <<slugs, wanted, doomed, seen, todo, current>>
        /\ pc[c] = "bulk" /\ pc'[c] \in {"bulk", "deployed", "failed"}
        /\ Write(c, updated[c], c)
    BY <1>12, RetryTypes
       DEF BulkUpdate, BulkBody, At, Goto, command, bounds, DTypes, Steps
  <2>2. updated[c] \in SUBSET Functions
    BY DEF DTypes
  <2>3. /\ others'[c] = others[c]
        /\ \A f \in Functions : remote'[f] = remote[f] \/ remote'[f] = c
    BY <2>1, <2>2, WriteOwn
  <2> QED
    BY <1>1, <2>1, <2>3 DEF Spared, Covered, Underway
<1>13. CASE Deployed(c) \/ Confirm(c)
  <2>1. /\ UNCHANGED <<slugs, wanted, doomed, others, remote, seen, todo, current>>
        /\ pc[c] \in {"deployed", "confirm"}
        /\ pc'[c] \in {"ok", "prune", "delete", "unpruned"}
    BY <1>13 DEF Deployed, Confirm, At, Goto, NoWrite, command, bounds, DTypes
  <2> QED
    BY <1>2, <2>1 DEF Underway
<1>14. CASE ListPrune(c)
  <2>1. /\ UNCHANGED <<slugs, wanted, others, remote, seen, todo, current>>
        /\ pc[c] = "prune"
        /\ \/ /\ doomed' = [doomed EXCEPT ![c] = ToPrune(c)]
              /\ Goto(c, IF doomed'[c] = {} THEN "ok" ELSE "confirm")
           \/ Goto(c, "unpruned") /\ doomed' = doomed
    BY <1>14 DEF ListPrune, At, Set, NoWrite, command
  <2>2. pc'[c] \in {"ok", "confirm", "unpruned"}
    BY <2>1 DEF Goto, DTypes
  <2>3. doomed'[c] \cap slugs[c] = {}
    BY <1>1, <2>1 DEF Spared, ToPrune, DTypes
  <2> QED
    BY <1>1, <2>1, <2>2, <2>3 DEF Spared, Covered, Underway
<1>15. ASSUME NEW f \in Functions, Delete(c, f)
       PROVE  Spared(c)' /\ Covered(c)'
  <2>1. /\ UNCHANGED <<slugs, wanted, seen, todo, current>>
        /\ pc[c] = "delete" /\ f \in doomed[c] /\ Write(c, {f}, Absent)
        /\ \/ /\ doomed' = [doomed EXCEPT ![c] = doomed[c] \ {f}]
              /\ Goto(c, IF doomed'[c] = {} THEN "ok" ELSE "delete")
           \/ Goto(c, "unpruned") /\ doomed' = doomed
    BY <1>15 DEF Delete, At, Set, command
  <2>2. pc'[c] \in {"ok", "delete", "unpruned"}
    BY <2>1 DEF Goto, DTypes
  <2>3. doomed'[c] \subseteq doomed[c]
    BY <2>1 DEF DTypes
  <2>4. /\ others'[c] = others[c]
        /\ \A g \in Functions : g # f => remote'[g] = remote[g]
    BY <2>1, WriteOwn
  <2>5. f \notin wanted[c]
    BY <1>1, <2>1 DEF Spared
  <2> QED
    BY <1>1, <2>1, <2>2, <2>3, <2>4, <2>5 DEF Spared, Covered, Underway
<1> QED
  BY <1>3, <1>4, <1>5, <1>6, <1>7, <1>8, <1>9, <1>10, <1>11, <1>12, <1>13, <1>14,
     <1>15 DEF Step

LEMMA StepSInv == DTypes /\ SInv /\ [Next]_vars => SInv'
<1> SUFFICES ASSUME DTypes, SInv, [Next]_vars
             PROVE  SInv'
  OBVIOUS
<1>1. ASSUME NEW c \in Clients, Start(c) \/ Step(c)
      PROVE  SInv'
  <2>1. \A d \in Clients \ {c} : Spared(d)' /\ Covered(d)'
    BY <1>1, FrameStep, FrameSInv
  <2>2. Spared(c)' /\ Covered(c)'
    BY <1>1, OwnSInv
  <2> QED
    BY <2>1, <2>2 DEF SInv
<1>2. CASE UNCHANGED vars
  BY <1>2 DEF vars, command, SInv, Spared, Covered
<1> QED
  BY <1>1, <1>2 DEF Next

\* Whatever is lost on the way, and whatever others deploy or prune meanwhile: a
\* command that reports success has deployed every function that it was asked
\* for and that nobody else has written since its listing.
THEOREM SuccessDeploys == Spec => []SuccessIsDeployed
<1>1. DTypes /\ SInv => SuccessIsDeployed
  <2> SUFFICES ASSUME SInv, NEW c \in Clients, At(c, "ok"),
                      NEW f \in wanted[c] \ others[c]
               PROVE  remote[f] = c
    BY DEF SuccessIsDeployed
  <2> QED
    BY DEF SInv, Covered, Underway, At
<1> QED
  BY <1>1, InitSInv, StepSInv, DeployTypes, PTL DEF Spec

-----------------------------------------------------------------------------
(***************************************************************************)
(* Nobody fails                                                            *)
(***************************************************************************)

\* The attempts that a request may have behind it: one for each fault, and one
\* for the creation that was answered by "Duplicated function slug".
Spent(c) ==
  IF pc[c] = "upsert" /\ current[c] \in known[c] THEN faults + 1 ELSE faults

Going(c) ==
  /\ known[c] \subseteq Existing
  /\ pc[c] \in {"list", "upsert", "bulk"} => tries[c] <= Spent(c)
  /\ pc[c] # "failed"

\* As long as no function has been deleted.
NInv == ~pruned => \A c \in Clients : Going(c)

LEMMA InitNInv == Init => NInv
<1> SUFFICES ASSUME Init, NEW c \in Clients
             PROVE  Going(c)
  BY DEF NInv
<1>1. pc[c] = "idle" /\ known[c] = {}
  BY DEF Init
<1> QED
  BY <1>1 DEF Going

\* Functions only appear, as long as none has been deleted.
LEMMA ExistingGrows ==
  ASSUME DTypes, NEW c \in Clients, Start(c) \/ Step(c), ~pruned'
  PROVE  /\ ~pruned
         /\ Existing \subseteq Existing'
         /\ faults' \in Nat /\ faults \in Nat /\ faults <= faults'
<1>1. faults' \in Nat /\ faults \in Nat /\ faults <= faults'
  <2>1. faults' = faults \/ faults' = faults + 1
    BY DEF Start, Step, List, RequestLost, Skip, Deploy, BundleFails, Upsert,
           AnswerLost, Duplicated, NotFound, LoopEnds, BulkUpdate, Deployed, ListPrune,
           Confirm, Delete, Lose, bounds
  <2> QED
    BY <2>1 DEF DTypes
<1>2. ASSUME NEW fs \in SUBSET Functions, Write(c, fs, c)
      PROVE  ~pruned /\ Existing \subseteq Existing'
  BY <1>2 DEF Write, Existing
<1>3. CASE Upsert(c) \/ AnswerLost(c)
  <2>1. current[c] \in Functions /\ Write(c, {current[c]}, c)
    BY <1>3 DEF Upsert, AnswerLost, DTypes
  <2> QED
    BY <1>1, <1>2, <2>1
<1>4. CASE BulkUpdate(c)
  <2>1. updated[c] \in SUBSET Functions /\ Write(c, updated[c], c)
    BY <1>4 DEF BulkUpdate, BulkBody, DTypes
  <2> QED
    BY <1>1, <1>2, <2>1
<1>5. ASSUME NEW f \in Functions
      PROVE  ~Delete(c, f)
  BY DEF Delete, Write
<1>6. CASE UNCHANGED <<remote, pruned>>
  BY <1>1, <1>6 DEF Existing
<1> QED
  BY <1>3, <1>4, <1>5, <1>6
     DEF Start, Step, List, RequestLost, Skip, Deploy, BundleFails, Duplicated,
         NotFound, LoopEnds, Deployed, ListPrune, Confirm, NoWrite

\* A step that leaves a command alone does not fail it.
LEMMA FrameNInv ==
  ASSUME DTypes, NEW c \in Clients, Start(c) \/ Step(c), ~pruned', Frame(c),
         NEW d \in Clients \ {c}, Going(d)
  PROVE  Going(d)'
<1>1. /\ pc'[d] = pc[d] /\ known'[d] = known[d] /\ todo'[d] = todo[d]
      /\ current'[d] = current[d] /\ tries'[d] = tries[d]
  BY DEF Frame
<1>2. /\ Existing \subseteq Existing'
      /\ faults' \in Nat /\ faults \in Nat /\ faults <= faults'
  BY ExistingGrows
<1>3. tries[d] \in Nat
  BY DEF DTypes
<1> QED
  BY <1>1, <1>2, <1>3 DEF Going, Spent

\* A request that is lost while an attempt is left is tried again.
LEMMA RetryGoes ==
  ASSUME DTypes, MaxFaults <= 2, NEW c \in Clients, NEW step, Retry(c, step),
         tries[c] <= 2
  PROVE  pc'[c] = step /\ tries'[c] = tries[c] + 1
<1>1. tries[c] < MaxRetries
  BY DEF DTypes
<1> QED
  BY <1>1 DEF Retry, Goto, Set, DTypes

LEMMA OwnNInv ==
  ASSUME DTypes, MaxFaults <= 2, NEW c \in Clients, Start(c) \/ Step(c), ~pruned',
         Going(c)
  PROVE  Going(c)'
<1>1. /\ Existing \subseteq Existing'
      /\ faults' \in Nat /\ faults \in Nat /\ faults <= faults'
      /\ faults <= MaxFaults /\ tries[c] \in Nat
  BY ExistingGrows DEF DTypes
<1>2. ASSUME UNCHANGED known, NEW step, pc'[c] = step,
             step \notin {"list", "upsert", "bulk", "failed"}
      PROVE  Going(c)'
  BY <1>1, <1>2 DEF Going
<1>3. ASSUME UNCHANGED <<known, current>>, pc'[c] = pc[c], tries'[c] = tries[c] + 1,
             faults' = faults + 1, pc[c] # "failed"
      PROVE  Going(c)'
  BY <1>1, <1>3 DEF Going, Spent
<1>4. CASE Start(c) \/ LoopEnds(c)
  <2>1. /\ pc'[c] \in {"list", "bulk", "deployed"} /\ tries'[c] = 0 /\ UNCHANGED known
    BY <1>4 DEF Start, LoopEnds, Goto, Set, DTypes
  <2>2. Spent(c)' = faults'
    BY <2>1 DEF Spent
  <2>3. tries'[c] <= Spent(c)'
    BY <1>1, <2>1, <2>2
  <2> QED
    BY <1>1, <2>1, <2>3 DEF Going
<1>5. CASE List(c)
  <2>1. pc'[c] = "loop" /\ known'[c] = Existing
    BY <1>5 DEF List, Goto, Set, DTypes
  <2> QED
    BY <1>1, <2>1 DEF Going
<1>6. CASE RequestLost(c)
  <2>1. /\ UNCHANGED <<known, current>> /\ faults < MaxFaults /\ faults' = faults + 1
        /\ Retry(c, pc[c]) /\ pc[c] \in {"list", "upsert", "bulk"}
    BY <1>6 DEF RequestLost, Lose
  <2>2. tries[c] <= 2
    BY <1>1, <2>1 DEF Going, Spent
  <2> QED
    BY <1>3, <2>1, <2>2, RetryGoes
<1>7. ASSUME NEW f \in Functions, Skip(c, f)
      PROVE  Going(c)'
  <2>1. pc'[c] = "loop" /\ UNCHANGED known
    BY <1>7 DEF Skip, At
  <2> QED
    BY <1>2, <2>1
<1>8. ASSUME NEW f \in Functions, Deploy(c, f)
      PROVE  Going(c)'
  <2>1. pc'[c] = "upsert" /\ tries'[c] = 0 /\ UNCHANGED known
    BY <1>8 DEF Deploy, Goto, Set, DTypes
  <2>2. Spent(c)' \in {faults', faults' + 1}
    BY DEF Spent
  <2>3. tries'[c] <= Spent(c)'
    BY <1>1, <2>1, <2>2
  <2> QED
    BY <1>1, <2>1, <2>3 DEF Going
<1>9. CASE BundleFails(c)
  <2>1. pc'[c] = "unbundled" /\ UNCHANGED known
    BY <1>9 DEF BundleFails, Goto, DTypes
  <2> QED
    BY <1>2, <2>1
<1>10. CASE Upsert(c)
  <2>1. pc'[c] = "loop" /\ UNCHANGED known
    BY <1>10 DEF Upsert, Goto, DTypes
  <2> QED
    BY <1>2, <2>1
<1>11. CASE AnswerLost(c)
  <2>1. /\ UNCHANGED <<known, current>> /\ faults < MaxFaults /\ faults' = faults + 1
        /\ Retry(c, "upsert") /\ pc[c] = "upsert"
    BY <1>11 DEF AnswerLost, Lose, At
  <2>2. tries[c] <= 2
    BY <1>1, <2>1 DEF Going, Spent
  <2> QED
    BY <1>3, <2>1, <2>2, RetryGoes
<1>12. CASE Duplicated(c)
  <2>1. /\ pc[c] = "upsert" /\ current[c] \notin known[c] /\ current[c] \in Functions
        /\ remote[current[c]] # Absent /\ Retry(c, "upsert")
        /\ tries[c] < MaxRetries => known' = [known EXCEPT ![c] = known[c] \cup {current[c]}]
        /\ current' = current /\ faults' = faults /\ remote' = remote
    BY <1>12 DEF Duplicated, Notify, Set, At, NoWrite, bounds, DTypes
  <2>2. tries[c] <= faults
    BY <2>1 DEF Going, Spent
  <2>3. pc'[c] = "upsert" /\ tries'[c] = tries[c] + 1
    BY <1>1, <2>1, <2>2, RetryGoes
  <2>4. known'[c] = known[c] \cup {current[c]}
    BY <1>1, <2>1, <2>2 DEF DTypes
  <2>5. current[c] \in Existing'
    BY <2>1 DEF Existing
  <2> QED
    BY <1>1, <2>1, <2>2, <2>3, <2>4, <2>5 DEF Going, Spent
<1>13. CASE NotFound(c)
  BY <1>13 DEF NotFound, Going, Existing
<1>14. CASE BulkUpdate(c)
  <2>1. CASE Goto(c, "deployed")
    <3>1. pc'[c] = "deployed" /\ UNCHANGED known
      BY <1>14, <2>1 DEF BulkUpdate, Goto, DTypes
    <3> QED
      BY <1>2, <3>1
  <2>2. CASE Retry(c, "bulk") /\ Lose
    <3>1. UNCHANGED <<known, current>> /\ pc[c] = "bulk"
      BY <1>14 DEF BulkUpdate, At
    <3>2. faults < MaxFaults /\ faults' = faults + 1
      BY <2>2 DEF Lose
    <3>3. tries[c] <= 2
      BY <1>1, <3>1, <3>2 DEF Going, Spent
    <3> QED
      BY <1>3, <2>2, <3>1, <3>2, <3>3, RetryGoes
  <2> QED
    BY <1>14, <2>1, <2>2 DEF BulkUpdate
<1>15. CASE Deployed(c) \/ Confirm(c)
  <2>1. pc'[c] \in {"ok", "prune", "delete", "unpruned"} /\ UNCHANGED known
    BY <1>15 DEF Deployed, Confirm, Goto, DTypes
  <2> QED
    BY <1>2, <2>1
<1>16. CASE ListPrune(c)
  <2>1. /\ UNCHANGED known
        /\ \E step \in {"ok", "confirm", "unpruned"} : Goto(c, step)
    BY <1>16 DEF ListPrune
  <2>2. pc'[c] \in {"ok", "confirm", "unpruned"}
    BY <2>1 DEF Goto, DTypes
  <2> QED
    BY <1>2, <2>1, <2>2
<1>17. ASSUME NEW f \in Functions
       PROVE  ~Delete(c, f)
  BY DEF Delete, Write
<1> QED
  BY <1>4, <1>5, <1>6, <1>7, <1>8, <1>9, <1>10, <1>11, <1>12, <1>13, <1>14, <1>15,
     <1>16, <1>17 DEF Step

LEMMA StepNInv ==
  ASSUME MaxFaults <= 2
  PROVE  DTypes /\ NInv /\ [Next]_vars => NInv'
<1> SUFFICES ASSUME DTypes, NInv, [Next]_vars
             PROVE  NInv'
  OBVIOUS
<1>1. ASSUME NEW c \in Clients, Start(c) \/ Step(c), ~pruned'
      PROVE  \A d \in Clients : Going(d)'
  <2>1. ~pruned /\ \A d \in Clients : Going(d)
    BY <1>1, ExistingGrows DEF NInv
  <2>2. \A d \in Clients \ {c} : Going(d)'
    BY <1>1, <2>1, FrameStep, FrameNInv
  <2>3. Going(c)'
    BY <1>1, <2>1, OwnNInv
  <2> QED
    BY <2>2, <2>3
<1>2. CASE UNCHANGED vars
  <2>1. pruned' = pruned /\ \A c \in Clients : Going(c)' = Going(c)
    BY <1>2 DEF vars, bounds, Going, Spent, Existing
  <2> QED
    BY <2>1 DEF NInv
<1> QED
  BY <1>1, <1>2 DEF Next, NInv

\* Two requests or answers may be lost, and a function created by another client
\* at the same time costs one attempt more: the three retries are enough, unless
\* a prune deletes functions that a command has listed.
THEOREM NobodyHasToFail == MaxFaults <= 2 => (Spec => []NobodyFails)
<1>1. CASE MaxFaults <= 2
  <2>1. NInv => NobodyFails
    BY DEF NInv, Going, NobodyFails, At
  <2>2. DTypes /\ NInv /\ [Next]_vars => NInv'
    BY <1>1, StepNInv
  <2>3. Spec => []NobodyFails
    BY <2>1, <2>2, InitNInv, DeployTypes, PTL DEF Spec
  <2> QED
    BY <2>3
<1> QED
  BY <1>1
=============================================================================
