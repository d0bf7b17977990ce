----------------------- MODULE PendingMigrationsProofs -----------------------
(***************************************************************************)
(* Theorems about what db push computes: the merge of the migrations       *)
(* directory with the history table, for any versions, any two orders of   *)
(* them and any number of files; and how a migration file is split into    *)
(* statements, for any text and any depth of its constructs.               *)
(*                                                                         *)
(* The merge compares with the order of the rows whatever the order of the *)
(* directory is, so nothing can be said of what it finds missing; but a    *)
(* list without an error is returned only if nothing was, and then the     *)
(* loop has matched every row it passed with a file of its own.  MInv says *)
(* so: as long as nothing is missing, the files passed are the rows passed *)
(* and the out-of-order ones, counted together.                            *)
(*                                                                         *)
(* The splitter knows less than the text: it does not see how parentheses  *)
(* are paired, keeps the state of a string until after its last quote, and *)
(* compares a dollar quote with its tag rune by rune.  SplitInv says what  *)
(* of the text each part of its state stands for, so that a semicolon      *)
(* finds it ready, with no AtomicState around, just where one ends a       *)
(* statement.                                                              *)
(***************************************************************************)
EXTENDS PendingMigrations, SqlSplitter, SequenceTheorems, TLAPS

\* The types that the proofs need.
MTypes ==
  /\ entries \in Seq(Versions \cup {Other}) /\ listed \in 0 .. Len(entries)
  /\ local \in Seq(Versions) /\ remote \in Seq(Versions)
  /\ i \in 0 .. Len(remote) /\ j \in 0 .. Len(local)
  /\ unapplied \in Seq(Versions) /\ missing \in Seq(Versions)
  /\ pc \in {"list", "merge", "done"}

\* The files passed are the rows passed and the out-of-order ones.
Passed ==
  /\ j = i + Len(unapplied)
  /\ \A m \in 1 .. j :
       \/ \E n \in 1 .. i : local[m] = remote[n]
       \/ \E n \in 1 .. Len(unapplied) : local[m] = unapplied[n]
  /\ \A n \in 1 .. i : \E m \in 1 .. j : local[m] = remote[n]
  /\ \A n \in 1 .. Len(unapplied) : \E m \in 1 .. j : local[m] = unapplied[n]

\* No two files have one version: then no out-of-order one is a row.
Apart ==
  Distinct(local) =>
    /\ Distinct(unapplied)
    /\ \A n \in 1 .. Len(unapplied), m \in 1 .. i : unapplied[n] # remote[m]

\* The out-of-order ones are in the order of the directory.
Older ==
  InOrder =>
    /\ Ordered(unapplied, Precedes)
    /\ \A n \in 1 .. Len(unapplied), m \in 1 .. Len(local) :
         m > j => <<unapplied[n], local[m]>> \in Precedes

\* What is returned without an error.
Returned ==
  pc = "done" /\ result.error = "none" =>
    /\ missing = <<>> /\ i = Len(remote)
    /\ result.list = unapplied \o After(local, j)

MInv ==
  /\ MTypes
  /\ pc = "list" => i = 0 /\ j = 0 /\ unapplied = <<>> /\ missing = <<>>
  /\ missing = <<>> => Passed /\ Apart /\ Older
  /\ Returned

\* The invariant holds initially.
LEMMA InitMInv == Init => MInv
  <1> SUFFICES ASSUME Init PROVE MInv
    OBVIOUS
  <1>1. remote \in Seq(Versions) /\ entries \in Seq(Versions \cup {Other})
    BY DEF Init, Histories, Listings
  <1>2. MTypes
    BY <1>1 DEF Init, MTypes
  <1>3. Passed
    BY DEF Init, Passed
  <1>4. Apart
    BY DEF Init, Apart, Distinct
  <1>5. Older
    BY DEF Init, Older, Ordered
  <1> QED BY <1>2, <1>3, <1>4, <1>5 DEF MInv, Init, Returned

\* Listing the directory: nothing has been passed.
LEMMA ListMInv == ASSUME MInv, List \/ Listed PROVE MInv'
  <1>1. /\ MTypes /\ pc = "list" /\ remote' = remote /\ entries' = entries
        /\ i' = i /\ j' = j /\ unapplied' = unapplied /\ missing' = missing
        /\ i = 0 /\ j = 0 /\ unapplied = <<>> /\ missing = <<>>
        /\ pc' \in {"list", "merge"}
    BY DEF MInv, List, Listed, inputs, read
  <1>2. local' \in Seq(Versions) /\ listed' \in 0 .. Len(entries)
    <2>1. CASE List
      <3> DEFINE e == entries[listed + 1]
      <3>1. /\ listed < Len(entries) /\ listed' = listed + 1
            /\ local' = local \/ (e # Other /\ local' = Append(local, e))
        BY <2>1 DEF List
      <3>2. e \in Versions \cup {Other}
        BY <1>1, <3>1 DEF MTypes
      <3> QED BY <1>1, <3>1, <3>2 DEF MTypes
    <2>2. CASE Listed
      BY <1>1, <2>2 DEF Listed, read, MTypes
    <2> QED BY <2>1, <2>2
  <1>3. MTypes'
    BY <1>1, <1>2 DEF MTypes
  <1>4. Passed' /\ Apart' /\ Older'
    BY <1>1 DEF Passed, Apart, Older, Distinct, Ordered
  <1> QED BY <1>1, <1>3, <1>4 DEF MInv, Returned

\* A file that has its row: both are passed.
LEMMA MatchMInv == ASSUME MInv, Match PROVE MInv'
  <1>1. /\ MTypes /\ pc = "merge" /\ i < Len(remote) /\ j < Len(local)
        /\ remote[i + 1] = local[j + 1]
        /\ i' = i + 1 /\ j' = j + 1
        /\ remote' = remote /\ entries' = entries /\ listed' = listed /\ local' = local
        /\ unapplied' = unapplied /\ missing' = missing /\ pc' = pc
    BY DEF MInv, Match, More, inputs, read
  <1>2. MTypes'
    BY <1>1 DEF MTypes
  <1>N. i \in Nat /\ j \in Nat /\ Len(unapplied) \in Nat
    BY <1>1 DEF MTypes
  <1>3. ASSUME missing = <<>> PROVE Passed'
    <2>1. Passed
      BY <1>3 DEF MInv
    <2>2. j + 1 = i + 1 + Len(unapplied)
      BY <1>N, <2>1 DEF Passed
    <2>3. ASSUME NEW m \in 1 .. j + 1
          PROVE  \/ \E n \in 1 .. i + 1 : local[m] = remote[n]
                 \/ \E n \in 1 .. Len(unapplied) : local[m] = unapplied[n]
      <3>1. CASE m = j + 1
        BY <1>1, <1>N, <3>1
      <3>2. CASE m # j + 1
        <4>1. m \in 1 .. j /\ 1 .. i \subseteq 1 .. i + 1
          BY <1>N, <3>2
        <4> QED BY <2>1, <4>1 DEF Passed
      <3> QED BY <3>1, <3>2
    <2>4. ASSUME NEW n \in 1 .. i + 1
          PROVE  \E m \in 1 .. j + 1 : local[m] = remote[n]
      <3>1. CASE n = i + 1
        BY <1>1, <1>N, <3>1
      <3>2. CASE n # i + 1
        <4>1. n \in 1 .. i /\ 1 .. j \subseteq 1 .. j + 1
          BY <1>N, <3>2
        <4> QED BY <2>1, <4>1 DEF Passed
      <3> QED BY <3>1, <3>2
    <2>5. ASSUME NEW n \in 1 .. Len(unapplied)
          PROVE  \E m \in 1 .. j + 1 : local[m] = unapplied[n]
      <3>1. 1 .. j \subseteq 1 .. j + 1
        BY <1>N
      <3> QED BY <2>1, <3>1 DEF Passed
    <2> QED BY <1>1, <2>2, <2>3, <2>4, <2>5 DEF Passed
  <1>4. ASSUME missing = <<>> PROVE Apart'
    <2>1. Passed /\ Apart
      BY <1>4 DEF MInv
    <2>2. ASSUME Distinct(local), NEW n \in 1 .. Len(unapplied)
          PROVE  unapplied[n] # remote[i + 1]
      <3>1. PICK m \in 1 .. j : local[m] = unapplied[n]
        BY <2>1 DEF Passed
      <3>2. m \in 1 .. Len(local) /\ j + 1 \in 1 .. Len(local) /\ m # j + 1
        BY <1>1, <1>N DEF MTypes
      <3> QED BY <1>1, <2>2, <3>1, <3>2 DEF Distinct
    <2>3. ASSUME Distinct(local), NEW n \in 1 .. Len(unapplied), NEW m \in 1 .. i + 1
          PROVE  unapplied[n] # remote[m]
      <3>1. m = i + 1 \/ m \in 1 .. i
        BY <1>N
      <3> QED BY <2>1, <2>2, <2>3, <3>1 DEF Apart
    <2>4. Distinct(local)' = Distinct(local) /\ Distinct(unapplied)' = Distinct(unapplied)
      BY <1>1 DEF Distinct
    <2> QED BY <1>1, <2>1, <2>3, <2>4 DEF Apart
  <1>5. ASSUME missing = <<>> PROVE Older'
    <2>1. Older
      BY <1>5 DEF MInv
    <2> QED BY <1>1, <2>1 DEF Older, InOrder, Ordered, MTypes
  <1> QED BY <1>1, <1>2, <1>3, <1>4, <1>5 DEF MInv, Returned

\* A row without a file: something is missing from now on.
LEMMA MissingMInv == ASSUME MInv, RemoteMissing PROVE MInv'
  <1>1. /\ MTypes /\ pc = "merge" /\ i < Len(remote)
        /\ missing' = Append(missing, remote[i + 1]) /\ i' = i + 1 /\ j' = j
        /\ remote' = remote /\ entries' = entries /\ listed' = listed /\ local' = local
        /\ unapplied' = unapplied /\ pc' = pc
    BY DEF MInv, RemoteMissing, More, inputs, read
  <1>2. MTypes'
    BY <1>1 DEF MTypes
  <1>3. missing' # <<>>
    BY <1>1 DEF MTypes
  <1> QED BY <1>1, <1>2, <1>3 DEF MInv, Returned

\* An out-of-order file: it is passed, and remembered.
LEMMA UnappliedMInv == ASSUME MInv, LocalUnapplied PROVE MInv'
  <1>1. /\ MTypes /\ pc = "merge" /\ i < Len(remote) /\ j < Len(local)
        /\ unapplied' = Append(unapplied, local[j + 1]) /\ j' = j + 1 /\ i' = i
        /\ remote' = remote /\ entries' = entries /\ listed' = listed /\ local' = local
        /\ missing' = missing /\ pc' = pc
    BY DEF MInv, LocalUnapplied, More, inputs, read
  <1>2. MTypes'
    BY <1>1 DEF MTypes
  <1>3. /\ Len(unapplied') = Len(unapplied) + 1
        /\ \A n \in 1 .. Len(unapplied) : unapplied'[n] = unapplied[n]
        /\ unapplied'[Len(unapplied) + 1] = local[j + 1]
        /\ Len(unapplied) \in Nat /\ i \in Nat /\ j \in Nat
    BY <1>1 DEF MTypes
  <1>4. ASSUME missing = <<>> PROVE Passed'
    <2>1. Passed
      BY <1>4 DEF MInv
    <2>2. j + 1 = i + Len(unapplied')
      BY <1>3, <2>1 DEF Passed
    <2>3. ASSUME NEW m \in 1 .. j + 1
          PROVE  \/ \E n \in 1 .. i : local[m] = remote[n]
                 \/ \E n \in 1 .. Len(unapplied') : local[m] = unapplied'[n]
      <3>1. CASE m = j + 1
        <4>1. Len(unapplied) + 1 \in 1 .. Len(unapplied')
          BY <1>3
        <4> QED BY <1>3, <3>1, <4>1
      <3>2. CASE m # j + 1
        <4>1. m \in 1 .. j /\ 1 .. Len(unapplied) \subseteq 1 .. Len(unapplied')
          BY <1>3, <3>2
        <4>2. \/ \E n \in 1 .. i : local[m] = remote[n]
              \/ \E n \in 1 .. Len(unapplied) : local[m] = unapplied[n]
          BY <2>1, <4>1 DEF Passed
        <4> QED BY <1>3, <4>1, <4>2
      <3> QED BY <3>1, <3>2
    <2>4. ASSUME NEW n \in 1 .. i
          PROVE  \E m \in 1 .. j + 1 : local[m] = remote[n]
      <3>1. 1 .. j \subseteq 1 .. j + 1
        BY <1>3
      <3> QED BY <2>1, <3>1 DEF Passed
    <2>5. ASSUME NEW n \in 1 .. Len(unapplied')
          PROVE  \E m \in 1 .. j + 1 : local[m] = unapplied'[n]
      <3>1. CASE n = Len(unapplied')
        BY <1>3, <3>1
      <3>2. CASE n # Len(unapplied')
        <4>1. n \in 1 .. Len(unapplied) /\ 1 .. j \subseteq 1 .. j + 1
          BY <1>3, <3>2
        <4>2. PICK m \in 1 .. j : local[m] = unapplied[n]
          BY <2>1, <4>1 DEF Passed
        <4> QED BY <1>3, <4>1, <4>2
      <3> QED BY <3>1, <3>2
    <2> QED BY <1>1, <2>2, <2>3, <2>4, <2>5 DEF Passed
  <1>5. ASSUME missing = <<>> PROVE Apart'
    <2>1. Passed /\ Apart
      BY <1>5 DEF MInv
    <2>2. ASSUME Distinct(local), NEW n \in 1 .. Len(unapplied)
          PROVE  unapplied[n] # local[j + 1]
      <3>1. PICK m \in 1 .. j : local[m] = unapplied[n]
        BY <2>1 DEF Passed
      <3>2. m \in 1 .. Len(local) /\ j + 1 \in 1 .. Len(local) /\ m # j + 1
        BY <1>1, <1>3 DEF MTypes
      <3> QED BY <2>2, <3>1, <3>2 DEF Distinct
    <2>3. ASSUME Distinct(local), NEW n \in 1 .. i
          PROVE  local[j + 1] # remote[n]
      <3>1. PICK m \in 1 .. j : local[m] = remote[n]
        BY <2>1 DEF Passed
      <3>2. m \in 1 .. Len(local) /\ j + 1 \in 1 .. Len(local) /\ m # j + 1
        BY <1>1, <1>3 DEF MTypes
      <3> QED BY <2>3, <3>1, <3>2 DEF Distinct
    <2>4. ASSUME Distinct(local) PROVE Distinct(unapplied')
      BY <1>3, <2>1, <2>2, <2>4 DEF Apart, Distinct
    <2>5. ASSUME Distinct(local), NEW n \in 1 .. Len(unapplied'), NEW m \in 1 .. i
          PROVE  unapplied'[n] # remote[m]
      BY <1>3, <2>1, <2>3, <2>5 DEF Apart
    <2>6. Distinct(local') = Distinct(local)
      BY <1>1
    <2>7. Distinct(unapplied)' = Distinct(unapplied')
      BY DEF Distinct
    <2> QED BY <1>1, <2>4, <2>5, <2>6, <2>7 DEF Apart
  <1>6. ASSUME missing = <<>> PROVE Older'
    <2>1. Older
      BY <1>6 DEF MInv
    <2>2. ASSUME InOrder, NEW n \in 1 .. Len(unapplied'), NEW m \in 1 .. Len(local), m > j + 1
          PROVE  <<unapplied'[n], local[m]>> \in Precedes
      BY <1>1, <1>3, <2>1, <2>2 DEF Older, InOrder, Ordered
    <2>3. ASSUME InOrder PROVE Ordered(unapplied', Precedes)
      <3>1. ASSUME NEW k \in 1 .. Len(unapplied'), NEW m \in 1 .. Len(unapplied'), k < m
            PROVE  <<unapplied'[k], unapplied'[m]>> \in Precedes
        <4>1. k \in 1 .. Len(unapplied) /\ unapplied'[k] = unapplied[k]
          BY <1>3, <3>1
        <4>2. CASE m = Len(unapplied')
          <5>1. j + 1 \in 1 .. Len(local) /\ j + 1 > j /\ unapplied'[m] = local[j + 1]
            BY <1>1, <1>3, <4>2 DEF MTypes
          <5> QED BY <2>1, <2>3, <4>1, <5>1 DEF Older
        <4>3. CASE m # Len(unapplied')
          <5>1. m \in 1 .. Len(unapplied) /\ unapplied'[m] = unapplied[m]
            BY <1>3, <4>3
          <5> QED BY <2>1, <2>3, <3>1, <4>1, <5>1 DEF Older, Ordered
        <4> QED BY <4>2, <4>3
      <3> QED BY <3>1 DEF Ordered
    <2>4. InOrder' = InOrder
      BY <1>1 DEF InOrder
    <2> QED BY <1>1, <2>2, <2>3, <2>4 DEF Older, Ordered
  <1> QED BY <1>1, <1>2, <1>4, <1>5, <1>6 DEF MInv, Returned

\* The end: without an error, every row has been passed, none is missing.
LEMMA ReturnMInv == ASSUME MInv, Return PROVE MInv'
  <1>1. /\ MTypes /\ pc = "merge" /\ pc' = "done" /\ ~(i < Len(remote) /\ j < Len(local))
        /\ UNCHANGED <<read, i, j, unapplied, missing>>
    BY DEF MInv, Return, More
  <1>2. MTypes' /\ remote' = remote /\ local' = local /\ i' = i /\ j' = j
        /\ unapplied' = unapplied /\ missing' = missing
    BY <1>1 DEF MTypes, read, inputs
  <1>3. missing' = <<>> => Passed' /\ Apart' /\ Older'
    BY <1>2 DEF MInv, Passed, Apart, Older, Distinct, Ordered, InOrder
  <1>4. ASSUME result'.error = "none"
        PROVE  /\ missing = <<>> /\ i = Len(remote)
               /\ result'.list = unapplied \o After(local, j)
    <2>1. /\ missing \o MissingAfter(remote) = <<>>
          /\ \/ unapplied = <<>> /\ result'.list = After(local, Len(remote))
             \/ result'.list = unapplied \o After(local, Len(remote) + Len(unapplied))
      BY <1>4 DEF Return, IncludeAll
    <2>2. MissingAfter(remote) \in Seq(Versions)
      BY <1>1 DEF MissingAfter, After, MTypes
    <2>3. missing = <<>> /\ MissingAfter(remote) = <<>>
      BY <1>1, <2>1, <2>2 DEF MTypes
    <2>4. i = Len(remote)
      <3>1. SUFFICES ASSUME i < Len(remote) PROVE FALSE
        BY <1>1 DEF MTypes
      <3>2. MissingAfter(remote) = SubSeq(remote, i + 1, Len(remote))
        BY <1>1, <3>1 DEF MissingAfter, After, MTypes
      <3>3. Len(SubSeq(remote, i + 1, Len(remote))) = Len(remote) - i
        BY <1>1, <3>1 DEF MTypes
      <3>4. Len(remote) - i = 0
        <4>1. SubSeq(remote, i + 1, Len(remote)) = << >>
          BY <2>3, <3>2
        <4> QED BY <3>3, <4>1
      <3> QED BY <1>1, <3>1, <3>4 DEF MTypes
    <2>5. j = Len(remote) + Len(unapplied)
      BY <2>3, <2>4 DEF MInv, Passed
    <2>6. After(local, j) \in Seq(Versions)
      BY <1>1 DEF After, MTypes
    <2>7. unapplied = <<>> => /\ j = Len(remote)
                             /\ unapplied \o After(local, j) = After(local, j)
      BY <1>1, <2>5, <2>6 DEF MTypes
    <2> QED BY <2>1, <2>3, <2>4, <2>5, <2>7
  <1>5. Returned'
    BY <1>2, <1>4 DEF Returned, After
  <1> QED BY <1>1, <1>2, <1>3, <1>5 DEF MInv

\* Every step keeps the invariant.
LEMMA StepMInv == MInv /\ [Next]_vars => MInv'
  <1> SUFFICES ASSUME MInv, [Next]_vars PROVE MInv'
    OBVIOUS
  <1>1. CASE Next
    BY <1>1, ListMInv, MatchMInv, MissingMInv, UnappliedMInv, ReturnMInv DEF Next
  <1>2. CASE UNCHANGED vars
    <2>1. MTypes' = MTypes
      BY <1>2 DEF vars, MTypes
    <2>2. Passed' = Passed
      BY <1>2 DEF vars, Passed
    <2>3. Apart' = Apart
      BY <1>2 DEF vars, Apart, Distinct
    <2>4. Older' = Older
      BY <1>2 DEF vars, Older, InOrder, Ordered
    <2>5. Returned' = Returned
      BY <1>2 DEF vars, Returned, After
    <2> QED BY <1>2, <2>1, <2>2, <2>3, <2>4, <2>5 DEF vars, MInv
  <1> QED BY <1>1, <1>2

-----------------------------------------------------------------------------
(***************************************************************************)
(* The theorems.                                                           *)
(***************************************************************************)

\* The invariant of the merge, whatever the two orders are.
THEOREM MergeInvariant == Spec => []MInv
  BY InitMInv, StepMInv, PTL DEF Spec

\* The slice local[len(remote)+len(unapplied):] starts inside the directory.
LEMMA BoundsHold == MInv => SlicesInBounds
  BY DEF MInv, Returned, Passed, MTypes, SlicesInBounds

\* GetPendingMigrations never slices past the end of the directory, even if two
\* files have one version or the two orders disagree.
THEOREM SlicesStayInBounds == Spec => []SlicesInBounds
  BY MergeInvariant, BoundsHold, PTL

\* What a list without an error is made of: out-of-order files, and the rest.
LEMMA ListParts ==
  ASSUME MInv, pc = "done", result.error = "none"
  PROVE  /\ MTypes /\ Passed /\ Apart /\ Older /\ i = Len(remote)
         /\ Len(result.list) = Len(unapplied) + (Len(local) - j)
         /\ \A n \in 1 .. Len(unapplied) : result.list[n] = unapplied[n]
         /\ \A n \in Len(unapplied) + 1 .. Len(result.list) :
              /\ n - Len(unapplied) + j \in j + 1 .. Len(local)
              /\ result.list[n] = local[n - Len(unapplied) + j]
         /\ \A m \in j + 1 .. Len(local) :
              /\ m - j + Len(unapplied) \in Len(unapplied) + 1 .. Len(result.list)
              /\ result.list[m - j + Len(unapplied)] = local[m]
  <1>1. /\ MTypes /\ Passed /\ Apart /\ Older /\ i = Len(remote)
        /\ result.list = unapplied \o After(local, j)
    BY DEF MInv, Returned
  <1> DEFINE rest == After(local, j)
  <1>2. /\ Len(rest) = Len(local) - j
        /\ \A n \in 1 .. Len(rest) : rest[n] = local[n + j]
        /\ rest \in Seq(Versions) /\ unapplied \in Seq(Versions)
        /\ j \in Nat /\ Len(local) \in Nat /\ Len(unapplied) \in Nat /\ j <= Len(local)
    BY <1>1 DEF After, MTypes
  <1> HIDE DEF rest
  <1>3. Len(result.list) = Len(unapplied) + Len(rest)
    BY <1>1, <1>2 DEF rest
  <1>4. \A n \in 1 .. Len(unapplied) : result.list[n] = unapplied[n]
    BY <1>1, <1>2 DEF rest
  <1>5. \A n \in 1 .. Len(rest) : result.list[n + Len(unapplied)] = rest[n]
    BY <1>1, <1>2 DEF rest
  <1>6. ASSUME NEW n \in Len(unapplied) + 1 .. Len(result.list)
        PROVE  /\ n - Len(unapplied) + j \in j + 1 .. Len(local)
               /\ result.list[n] = local[n - Len(unapplied) + j]
    <2>1. n - Len(unapplied) \in 1 .. Len(rest)
      BY <1>2, <1>3
    <2>2. (n - Len(unapplied)) + Len(unapplied) = n /\ n - Len(unapplied) + j \in j + 1 .. Len(local)
      BY <1>2, <1>3
    <2>3. result.list[n] = rest[n - Len(unapplied)]
      BY <1>5, <2>1, <2>2
    <2> QED BY <1>2, <2>1, <2>2, <2>3
  <1>7. ASSUME NEW m \in j + 1 .. Len(local)
        PROVE  /\ m - j + Len(unapplied) \in Len(unapplied) + 1 .. Len(result.list)
               /\ result.list[m - j + Len(unapplied)] = local[m]
    <2>1. m - j \in 1 .. Len(rest)
      BY <1>2
    <2>2. /\ m - j + Len(unapplied) \in Len(unapplied) + 1 .. Len(result.list)
          /\ (m - j) + j = m
      BY <1>2, <1>3
    <2>3. result.list[m - j + Len(unapplied)] = rest[m - j]
      BY <1>5, <2>1
    <2>4. rest[m - j] = local[(m - j) + j]
      BY <1>2, <2>1
    <2> QED BY <2>2, <2>3, <2>4
  <1> QED BY <1>1, <1>2, <1>3, <1>4, <1>6, <1>7

\* The list against the directory and the rows, place by place.
LEMMA DifferenceHolds == MInv => PendingIsDifference
  <1> SUFFICES ASSUME MInv, pc = "done", result.error = "none", Distinct(local)
               PROVE  /\ Elements(result.list) = Elements(local) \ Elements(remote)
                      /\ Distinct(result.list)
    BY DEF PendingIsDifference
  <1> DEFINE list == result.list
  <1>1. /\ MTypes /\ Passed /\ Apart /\ i = Len(remote)
        /\ Len(list) = Len(unapplied) + (Len(local) - j)
        /\ \A n \in 1 .. Len(unapplied) : list[n] = unapplied[n]
        /\ \A n \in Len(unapplied) + 1 .. Len(list) :
             /\ n - Len(unapplied) + j \in j + 1 .. Len(local)
             /\ list[n] = local[n - Len(unapplied) + j]
        /\ \A m \in j + 1 .. Len(local) :
             /\ m - j + Len(unapplied) \in Len(unapplied) + 1 .. Len(list)
             /\ list[m - j + Len(unapplied)] = local[m]
    BY ListParts
  <1> HIDE DEF list
  <1>2. /\ j \in Nat /\ Len(local) \in Nat /\ Len(unapplied) \in Nat /\ j <= Len(local)
        /\ Len(remote) \in Nat /\ Len(list) \in Nat
    BY <1>1 DEF MTypes
  <1>3. \A n \in 1 .. Len(unapplied) : \E m \in 1 .. j : local[m] = unapplied[n]
    BY <1>1 DEF Passed
  <1>4. ASSUME NEW n \in 1 .. Len(list)
        PROVE  /\ list[n] \in Elements(local)
               /\ list[n] \notin Elements(remote)
    <2>1. CASE n \in 1 .. Len(unapplied)
      <3>1. list[n] = unapplied[n]
        BY <1>1, <2>1
      <3>2. PICK m \in 1 .. j : local[m] = unapplied[n]
        BY <1>3, <2>1
      <3>3. m \in 1 .. Len(local)
        BY <1>2
      <3>4. \A k \in 1 .. Len(remote) : unapplied[n] # remote[k]
        BY <1>1, <2>1 DEF Apart
      <3> QED BY <3>1, <3>2, <3>3, <3>4 DEF Elements
    <2>2. CASE n \in Len(unapplied) + 1 .. Len(list)
      <3> DEFINE m == n - Len(unapplied) + j
      <3>1. m \in j + 1 .. Len(local) /\ list[n] = local[m]
        BY <1>1, <2>2
      <3> HIDE DEF m
      <3>2. m \in 1 .. Len(local)
        BY <1>2, <3>1
      <3>3. ASSUME NEW k \in 1 .. Len(remote) PROVE local[m] # remote[k]
        <4>1. PICK p \in 1 .. j : local[p] = remote[k]
          BY <1>1 DEF Passed
        <4>2. p \in 1 .. Len(local) /\ p # m
          BY <1>2, <3>1
        <4> QED BY <3>2, <4>1, <4>2 DEF Distinct
      <3> QED BY <3>1, <3>2, <3>3 DEF Elements
    <2> QED BY <1>2, <2>1, <2>2
  <1>5. ASSUME NEW m \in 1 .. Len(local), local[m] \notin Elements(remote)
        PROVE  local[m] \in Elements(list)
    <2>1. CASE m \in 1 .. j
      <3>1. \A n \in 1 .. Len(remote) : local[m] # remote[n]
        BY <1>5 DEF Elements
      <3>2. PICK n \in 1 .. Len(unapplied) : local[m] = unapplied[n]
        BY <1>1, <2>1, <3>1 DEF Passed
      <3>3. n \in 1 .. Len(list) /\ list[n] = local[m]
        BY <1>1, <1>2, <3>2
      <3> QED BY <3>3 DEF Elements
    <2>2. CASE m \in j + 1 .. Len(local)
      <3> DEFINE n == m - j + Len(unapplied)
      <3>1. n \in Len(unapplied) + 1 .. Len(list) /\ list[n] = local[m]
        BY <1>1, <2>2
      <3> HIDE DEF n
      <3>2. n \in 1 .. Len(list)
        BY <1>2, <3>1
      <3> QED BY <3>1, <3>2 DEF Elements
    <2> QED BY <1>2, <2>1, <2>2
  <1>6. Elements(list) = Elements(local) \ Elements(remote)
    BY <1>4, <1>5 DEF Elements
  <1>7. ASSUME NEW n \in 1 .. Len(list), NEW m \in 1 .. Len(list), n < m, list[n] = list[m]
        PROVE  FALSE
    <2>1. CASE m \in 1 .. Len(unapplied)
      <3>1. n \in 1 .. Len(unapplied) /\ list[n] = unapplied[n] /\ list[m] = unapplied[m] /\ n # m
        BY <1>1, <1>2, <1>7, <2>1
      <3>2. Distinct(unapplied)
        BY <1>1 DEF Apart
      <3> QED BY <1>7, <2>1, <3>1, <3>2 DEF Distinct
    <2>2. CASE m \in Len(unapplied) + 1 .. Len(list)
      <3> DEFINE p == m - Len(unapplied) + j
      <3>1. p \in j + 1 .. Len(local) /\ list[m] = local[p]
        BY <1>1, <2>2
      <3>2. CASE n \in 1 .. Len(unapplied)
        <4>1. PICK q \in 1 .. j : local[q] = list[n]
          BY <1>1, <1>3, <3>2
        <4> HIDE DEF p
        <4>2. p \in 1 .. Len(local) /\ q \in 1 .. Len(local) /\ p # q
          BY <1>2, <3>1
        <4> QED BY <1>7, <3>1, <4>1, <4>2 DEF Distinct
      <3>3. CASE n \in Len(unapplied) + 1 .. Len(list)
        <4> DEFINE q == n - Len(unapplied) + j
        <4>1. q \in j + 1 .. Len(local) /\ list[n] = local[q]
          BY <1>1, <3>3
        <4>2. p # q
          BY <1>2, <1>7
        <4> HIDE DEF p, q
        <4>3. p \in 1 .. Len(local) /\ q \in 1 .. Len(local)
          BY <1>2, <3>1, <4>1
        <4> QED BY <1>7, <3>1, <4>1, <4>2, <4>3 DEF Distinct
      <3> QED BY <1>2, <3>2, <3>3
    <2> QED BY <1>2, <2>1, <2>2
  <1>8. Distinct(list)
    <2> SUFFICES ASSUME NEW n \in 1 .. Len(list), NEW m \in 1 .. Len(list), list[n] = list[m]
                 PROVE  n = m
      BY DEF Distinct
    <2>1. n < m \/ m < n \/ n = m
      BY <1>2
    <2> QED BY <1>7, <2>1
  <1> QED BY <1>6, <1>8 DEF list

\* Whatever the two orders are, a list returned without an error is what the
\* directory has and the table has not, each migration once.
THEOREM PendingIsExact == Spec => []PendingIsDifference
  BY MergeInvariant, DifferenceHolds, PTL

\* The out-of-order files come first, each before every file that is left.
LEMMA OldestFirstHolds == MInv => OldestFirst
  <1> SUFFICES ASSUME MInv, pc = "done", result.error = "none", InOrder,
                      NEW n \in 1 .. Len(result.list), NEW m \in 1 .. Len(result.list), n < m
               PROVE  <<result.list[n], result.list[m]>> \in Precedes
    BY DEF OldestFirst, Ordered
  <1> DEFINE list == result.list
  <1>1. /\ MTypes /\ Older
        /\ Len(list) = Len(unapplied) + (Len(local) - j)
        /\ \A k \in 1 .. Len(unapplied) : list[k] = unapplied[k]
        /\ \A k \in Len(unapplied) + 1 .. Len(list) :
             /\ k - Len(unapplied) + j \in j + 1 .. Len(local)
             /\ list[k] = local[k - Len(unapplied) + j]
    BY ListParts
  <1>2. /\ j \in Nat /\ Len(local) \in Nat /\ Len(unapplied) \in Nat /\ j <= Len(local)
        /\ Len(list) \in Nat
    BY <1>1 DEF MTypes
  <1> HIDE DEF list
  <1>3. CASE m \in 1 .. Len(unapplied)
    <2>1. n \in 1 .. Len(unapplied)
      BY <1>2, <1>3
    <2> QED BY <1>1, <1>3, <2>1 DEF Older, Ordered, list
  <1>4. CASE m \in Len(unapplied) + 1 .. Len(list)
    <2> DEFINE p == m - Len(unapplied) + j
    <2>1. p \in j + 1 .. Len(local) /\ list[m] = local[p]
      BY <1>1, <1>4
    <2>2. p \in 1 .. Len(local) /\ p > j
      BY <1>2, <2>1
    <2>3. CASE n \in 1 .. Len(unapplied)
      <3> HIDE DEF p
      <3> QED BY <1>1, <2>1, <2>2, <2>3 DEF Older, list
    <2>4. CASE n \in Len(unapplied) + 1 .. Len(list)
      <3> DEFINE q == n - Len(unapplied) + j
      <3>1. q \in j + 1 .. Len(local) /\ list[n] = local[q]
        BY <1>1, <2>4
      <3>2. q \in 1 .. Len(local) /\ q < p
        BY <1>2, <3>1
      <3> HIDE DEF p, q
      <3> QED BY <2>1, <2>2, <3>1, <3>2 DEF InOrder, Ordered, list
    <2> QED BY <1>2, <2>3, <2>4 DEF list
  <1> QED BY <1>2, <1>3, <1>4 DEF list

\* Migrations are returned oldest first, out-of-order ones included.
THEOREM OldestComeFirst == Spec => []OldestFirst
  BY MergeInvariant, OldestFirstHolds, PTL

-----------------------------------------------------------------------------
(***************************************************************************)
(* Refusals, when the files are in the order of their versions             *)
(*                                                                         *)
(* Both lists are sorted by one strict order then, and the pass splits     *)
(* them: what has been passed of either list is older than what is left of *)
(* the other.                                                              *)
(***************************************************************************)

\* The local migrations that are not on remote, where a newer one is.
OutOfOrder ==
  {l \in Elements(local) \ Elements(remote) :
     \E r \in Elements(remote) : <<l, r>> \in Precedes}

\* What has been passed of one list is older than what is left of the other.
Split ==
  /\ \A m \in 1 .. j, k \in i + 1 .. Len(remote) : <<local[m], remote[k]>> \in Precedes
  /\ \A k \in 1 .. i, m \in j + 1 .. Len(local) : <<remote[k], local[m]>> \in Precedes

\* What has been passed is accounted for.
Sorted ==
  /\ \A n \in 1 .. i : remote[n] \in Elements(missing) \cup Elements(local)
  /\ \A m \in 1 .. j : local[m] \in Elements(unapplied) \cup Elements(remote)
  /\ Elements(missing) \subseteq Elements(remote) \ Elements(local)
  /\ Elements(unapplied) \subseteq OutOfOrder

RInv ==
  /\ Ordered(remote, Precedes)
  /\ InOrder => Split /\ Sorted
  /\ RefusalIsExact

\* Sending an element to the end of a list.
LEMMA AppendElements ==
  ASSUME NEW s \in Seq(Versions), NEW v \in Versions
  PROVE  Elements(Append(s, v)) = Elements(s) \cup {v}
  <1>1. /\ Len(Append(s, v)) = Len(s) + 1 /\ Len(s) \in Nat
        /\ \A k \in 1 .. Len(s) : Append(s, v)[k] = s[k]
        /\ Append(s, v)[Len(s) + 1] = v
    OBVIOUS
  <1>2. \A k \in 1 .. Len(s) + 1 : k \in 1 .. Len(s) \/ k = Len(s) + 1
    BY <1>1
  <1>3. 1 .. Len(s) \subseteq 1 .. Len(s) + 1 /\ Len(s) + 1 \in 1 .. Len(s) + 1
    BY <1>1
  <1> QED BY <1>1, <1>2, <1>3 DEF Elements

\* A list is what comes up to a place, and what comes after it.
LEMMA ElementsAfter ==
  ASSUME NEW s \in Seq(Versions), NEW n \in 0 .. Len(s)
  PROVE  /\ After(s, n) \in Seq(Versions)
         /\ Elements(After(s, n)) = {s[k] : k \in n + 1 .. Len(s)}
  <1> DEFINE rest == After(s, n)
  <1>1. /\ rest \in Seq(Versions) /\ Len(rest) = Len(s) - n
        /\ \A k \in 1 .. Len(s) - n : rest[k] = s[k + n]
        /\ n \in Nat /\ Len(s) \in Nat
    BY DEF After
  <1> HIDE DEF rest
  <1>2. ASSUME NEW k \in n + 1 .. Len(s)
        PROVE  k - n \in 1 .. Len(rest) /\ rest[k - n] = s[k]
    <2>1. k - n \in 1 .. Len(s) - n /\ (k - n) + n = k
      BY <1>1
    <2> QED BY <1>1, <2>1
  <1>3. \A k \in 1 .. Len(rest) : k + n \in n + 1 .. Len(s) /\ rest[k] = s[k + n]
    BY <1>1
  <1>4. Elements(rest) = {s[k] : k \in n + 1 .. Len(s)}
    <2>1. \A k \in 1 .. Len(rest) : rest[k] \in {s[m] : m \in n + 1 .. Len(s)}
      BY <1>3
    <2>2. \A k \in n + 1 .. Len(s) : \E m \in 1 .. Len(rest) : s[k] = rest[m]
      BY <1>2
    <2> QED BY <2>1, <2>2 DEF Elements
  <1> QED BY <1>1, <1>4 DEF rest

\* Two lists, one after the other.
LEMMA ConcatElements ==
  ASSUME NEW s \in Seq(Versions), NEW t \in Seq(Versions)
  PROVE  Elements(s \o t) = Elements(s) \cup Elements(t)
  <1>1. /\ Len(s \o t) = Len(s) + Len(t) /\ Len(s) \in Nat /\ Len(t) \in Nat
        /\ \A k \in 1 .. Len(s) : (s \o t)[k] = s[k]
        /\ \A k \in 1 .. Len(t) : (s \o t)[k + Len(s)] = t[k]
    OBVIOUS
  <1>2. \A k \in 1 .. Len(t) : k + Len(s) \in 1 .. Len(s) + Len(t)
    BY <1>1
  <1>3. \A k \in 1 .. Len(s) + Len(t) :
          \/ k \in 1 .. Len(s)
          \/ k - Len(s) \in 1 .. Len(t) /\ (k - Len(s)) + Len(s) = k
    BY <1>1
  <1>4. 1 .. Len(s) \subseteq 1 .. Len(s) + Len(t)
    BY <1>1
  <1>5. Elements(s \o t) \subseteq Elements(s) \cup Elements(t)
    <2> SUFFICES ASSUME NEW k \in 1 .. Len(s) + Len(t)
                 PROVE  (s \o t)[k] \in Elements(s) \cup Elements(t)
      BY <1>1 DEF Elements
    <2>1. CASE k \in 1 .. Len(s)
      BY <1>1, <2>1 DEF Elements
    <2>2. CASE k - Len(s) \in 1 .. Len(t) /\ (k - Len(s)) + Len(s) = k
      <3>1. (s \o t)[k] = t[k - Len(s)]
        BY <1>1, <2>2
      <3> QED BY <2>2, <3>1 DEF Elements
    <2> QED BY <1>3, <2>1, <2>2
  <1>6. Elements(s) \subseteq Elements(s \o t)
    BY <1>1, <1>4 DEF Elements
  <1>7. Elements(t) \subseteq Elements(s \o t)
    <2> SUFFICES ASSUME NEW k \in 1 .. Len(t) PROVE t[k] \in Elements(s \o t)
      BY DEF Elements
    <2>1. k + Len(s) \in 1 .. Len(s \o t) /\ (s \o t)[k + Len(s)] = t[k]
      BY <1>1, <1>2
    <2> QED BY <2>1 DEF Elements
  <1> QED BY <1>5, <1>6, <1>7

LEMMA InitRInv == Init => RInv
  <1> SUFFICES ASSUME Init PROVE RInv
    OBVIOUS
  <1>1. Split /\ Sorted
    BY DEF Init, Split, Sorted, Elements
  <1> QED BY <1>1 DEF Init, Histories, RInv, RefusalIsExact

\* Listing the directory: nothing has been passed.
LEMMA ListRInv == ASSUME MInv, RInv, List \/ Listed PROVE RInv'
  <1>1. /\ remote' = remote /\ i' = 0 /\ j' = 0 /\ unapplied' = <<>> /\ missing' = <<>>
        /\ pc' # "done"
    BY DEF MInv, List, Listed, inputs, read
  <1>2. Split' /\ Sorted'
    BY <1>1 DEF Split, Sorted, Elements
  <1> QED BY <1>1, <1>2 DEF RInv, RefusalIsExact, Ordered

\* The loop, when both lists are in order: what the head of either list is to
\* the rest of the other.
LEMMA Heads ==
  ASSUME MInv, RInv, InOrder, More
  PROVE  /\ Split /\ Sorted
         /\ i \in 0 .. Len(remote) /\ j \in 0 .. Len(local)
         /\ i + 1 \in 1 .. Len(remote) /\ j + 1 \in 1 .. Len(local)
         /\ Len(remote) \in Nat /\ Len(local) \in Nat
         /\ \A n \in 1 .. Len(remote) : remote[n] \in Versions
         /\ \A n \in 1 .. Len(local) : local[n] \in Versions
         /\ \A k \in i + 2 .. Len(remote) : <<remote[i + 1], remote[k]>> \in Precedes
         /\ \A m \in j + 2 .. Len(local) : <<local[j + 1], local[m]>> \in Precedes
         /\ remote[i + 1] \in Elements(remote) /\ local[j + 1] \in Elements(local)
  <1>1. MTypes /\ Ordered(remote, Precedes) /\ Ordered(local, Precedes) /\ Split /\ Sorted
    BY DEF MInv, RInv, InOrder
  <1>2. /\ i \in 0 .. Len(remote) /\ j \in 0 .. Len(local)
        /\ i + 1 \in 1 .. Len(remote) /\ j + 1 \in 1 .. Len(local)
        /\ Len(remote) \in Nat /\ Len(local) \in Nat
    BY <1>1 DEF MTypes, More
  <1>3. \A k \in i + 2 .. Len(remote) : k \in 1 .. Len(remote) /\ i + 1 < k
    BY <1>2
  <1>4. \A m \in j + 2 .. Len(local) : m \in 1 .. Len(local) /\ j + 1 < m
    BY <1>2
  <1>5. /\ \A n \in 1 .. Len(remote) : remote[n] \in Versions
        /\ \A n \in 1 .. Len(local) : local[n] \in Versions
    BY <1>1 DEF MTypes
  <1> QED BY <1>1, <1>2, <1>3, <1>4, <1>5 DEF Ordered, Elements

\* A file that has its row.
LEMMA MatchRInv == ASSUME MInv, RInv, Match PROVE RInv'
  <1>1. /\ More /\ remote[i + 1] = local[j + 1] /\ i' = i + 1 /\ j' = j + 1
        /\ remote' = remote /\ local' = local
        /\ unapplied' = unapplied /\ missing' = missing /\ pc' = "merge"
    BY DEF Match, More, inputs, read
  <1>2. ASSUME InOrder PROVE Split' /\ Sorted'
    <2>1. Split'
      <3>1. ASSUME NEW m \in 1 .. j + 1, NEW k \in i + 2 .. Len(remote)
            PROVE  <<local[m], remote[k]>> \in Precedes
        <4>1. m = j + 1 \/ (m \in 1 .. j /\ k \in i + 1 .. Len(remote))
          BY <1>1, <1>2, Heads
        <4> QED BY <1>1, <1>2, <4>1, Heads DEF Split
      <3>2. ASSUME NEW k \in 1 .. i + 1, NEW m \in j + 2 .. Len(local)
            PROVE  <<remote[k], local[m]>> \in Precedes
        <4>1. k = i + 1 \/ (k \in 1 .. i /\ m \in j + 1 .. Len(local))
          BY <1>1, <1>2, Heads
        <4> QED BY <1>1, <1>2, <4>1, Heads DEF Split
      <3>3. (i + 1) + 1 = i + 2 /\ (j + 1) + 1 = j + 2
        BY <1>1, <1>2, Heads
      <3> QED BY <1>1, <3>1, <3>2, <3>3 DEF Split
    <2>2. /\ \A n \in 1 .. i + 1 : n \in 1 .. i \/ n = i + 1
          /\ \A m \in 1 .. j + 1 : m \in 1 .. j \/ m = j + 1
      BY <1>1, <1>2, Heads
    <2>3. Sorted /\ remote[i + 1] \in Elements(local) /\ local[j + 1] \in Elements(remote)
      BY <1>1, <1>2, Heads
    <2>4. UNCHANGED <<Elements(remote), Elements(local), Elements(unapplied),
                      Elements(missing), OutOfOrder>>
      BY <1>1 DEF Elements, OutOfOrder
    <2>5. Sorted'
      BY <1>1, <2>2, <2>3, <2>4 DEF Sorted
    <2> QED BY <2>1, <2>5
  <1> QED BY <1>1, <1>2 DEF RInv, RefusalIsExact, Ordered, InOrder

\* A row without a file: it is older than every file that is left, and newer
\* than every one passed.
LEMMA MissingRInv == ASSUME MInv, RInv, RemoteMissing PROVE RInv'
  <1>1. /\ More /\ <<remote[i + 1], local[j + 1]>> \in Precedes
        /\ i' = i + 1 /\ j' = j /\ missing' = Append(missing, remote[i + 1])
        /\ remote' = remote /\ local' = local
        /\ unapplied' = unapplied /\ pc' = "merge"
    BY DEF RemoteMissing, More, inputs, read
  <1>2. ASSUME InOrder PROVE Split' /\ Sorted'
    <2>1. ASSUME NEW m \in j + 1 .. Len(local)
          PROVE  <<remote[i + 1], local[m]>> \in Precedes
      <3>1. m = j + 1 \/ m \in j + 2 .. Len(local)
        BY <1>1, <1>2, Heads
      <3>2. m \in 1 .. Len(local)
        BY <1>1, <1>2, Heads
      <3>3. remote[i + 1] \in Versions /\ local[j + 1] \in Versions /\ local[m] \in Versions
        BY <1>1, <1>2, <3>2, Heads
      <3>4. m = j + 1 \/ <<local[j + 1], local[m]>> \in Precedes
        BY <1>1, <1>2, <3>1, Heads
      <3> QED BY <1>1, <3>3, <3>4, PrecedesAssumption
    <2>2. Split'
      <3>1. /\ \A k \in i + 2 .. Len(remote) : k \in i + 1 .. Len(remote)
            /\ \A k \in 1 .. i + 1 : k \in 1 .. i \/ k = i + 1
            /\ (i + 1) + 1 = i + 2
        BY <1>1, <1>2, Heads
      <3> QED BY <1>1, <1>2, <2>1, <3>1, Heads DEF Split
    <2>3. remote[i + 1] \notin Elements(local)
      <3>1. ASSUME NEW m \in 1 .. Len(local), local[m] = remote[i + 1]
            PROVE  <<remote[i + 1], remote[i + 1]>> \in Precedes
        <4>1. (m \in 1 .. j /\ i + 1 \in i + 1 .. Len(remote)) \/ m \in j + 1 .. Len(local)
          BY <1>1, <1>2, Heads
        <4> QED BY <1>1, <1>2, <2>1, <3>1, <4>1, Heads DEF Split
      <3> QED BY <1>1, <1>2, <3>1, Heads, PrecedesAssumption DEF Elements
    <2>4. Elements(missing') = Elements(missing) \cup {remote[i + 1]}
      BY <1>1, <1>2, Heads, AppendElements DEF MInv, MTypes
    <2>5. Sorted /\ remote[i + 1] \in Elements(remote)
      BY <1>1, <1>2, Heads
    <2>6. \A n \in 1 .. i + 1 : n \in 1 .. i \/ n = i + 1
      BY <1>1, <1>2, Heads
    <2>7. UNCHANGED <<Elements(remote), Elements(local), Elements(unapplied), OutOfOrder>>
      BY <1>1 DEF Elements, OutOfOrder
    <2>8. Sorted'
      BY <1>1, <2>3, <2>4, <2>5, <2>6, <2>7 DEF Sorted
    <2> QED BY <2>2, <2>8
  <1> QED BY <1>1, <1>2 DEF RInv, RefusalIsExact, Ordered, InOrder

\* A file without a row: it is older than every row that is left, and newer than
\* every one passed.
LEMMA UnappliedRInv == ASSUME MInv, RInv, LocalUnapplied PROVE RInv'
  <1>1. /\ More /\ remote[i + 1] # local[j + 1]
        /\ <<remote[i + 1], local[j + 1]>> \notin Precedes
        /\ i' = i /\ j' = j + 1 /\ unapplied' = Append(unapplied, local[j + 1])
        /\ remote' = remote /\ local' = local
        /\ missing' = missing /\ pc' = "merge"
    BY DEF LocalUnapplied, More, inputs, read
  <1>2. ASSUME InOrder PROVE Split' /\ Sorted'
    <2>1. <<local[j + 1], remote[i + 1]>> \in Precedes
      BY <1>1, <1>2, Heads, PrecedesAssumption
    <2>2. ASSUME NEW k \in i + 1 .. Len(remote)
          PROVE  <<local[j + 1], remote[k]>> \in Precedes
      <3>1. k = i + 1 \/ k \in i + 2 .. Len(remote)
        BY <1>1, <1>2, Heads
      <3>2. k \in 1 .. Len(remote)
        BY <1>1, <1>2, Heads
      <3>3. local[j + 1] \in Versions /\ remote[i + 1] \in Versions /\ remote[k] \in Versions
        BY <1>1, <1>2, <3>2, Heads
      <3>4. k = i + 1 \/ <<remote[i + 1], remote[k]>> \in Precedes
        BY <1>1, <1>2, <3>1, Heads
      <3> QED BY <2>1, <3>3, <3>4, PrecedesAssumption
    <2>3. Split'
      <3>1. /\ \A m \in j + 2 .. Len(local) : m \in j + 1 .. Len(local)
            /\ \A m \in 1 .. j + 1 : m \in 1 .. j \/ m = j + 1
            /\ (j + 1) + 1 = j + 2
        BY <1>1, <1>2, Heads
      <3> QED BY <1>1, <1>2, <2>2, <3>1, Heads DEF Split
    <2>4. local[j + 1] \notin Elements(remote)
      <3>1. ASSUME NEW k \in 1 .. Len(remote), remote[k] = local[j + 1]
            PROVE  <<local[j + 1], local[j + 1]>> \in Precedes
        <4>1. (k \in 1 .. i /\ j + 1 \in j + 1 .. Len(local)) \/ k \in i + 1 .. Len(remote)
          BY <1>1, <1>2, Heads
        <4> QED BY <1>1, <1>2, <2>2, <3>1, <4>1, Heads DEF Split
      <3> QED BY <1>1, <1>2, <3>1, Heads, PrecedesAssumption DEF Elements
    <2>5. local[j + 1] \in OutOfOrder
      BY <1>1, <1>2, <2>1, <2>4, Heads DEF OutOfOrder
    <2>6. Elements(unapplied') = Elements(unapplied) \cup {local[j + 1]}
      BY <1>1, <1>2, Heads, AppendElements DEF MInv, MTypes
    <2>7. \A m \in 1 .. j + 1 : m \in 1 .. j \/ m = j + 1
      BY <1>1, <1>2, Heads
    <2>8. UNCHANGED <<Elements(remote), Elements(local), Elements(missing), OutOfOrder>>
      BY <1>1 DEF Elements, OutOfOrder
    <2>9. Sorted
      BY <1>1, <1>2, Heads
    <2>10. Sorted'
      BY <1>1, <2>5, <2>6, <2>7, <2>8, <2>9 DEF Sorted
    <2> QED BY <2>3, <2>10
  <1> QED BY <1>1, <1>2 DEF RInv, RefusalIsExact, Ordered, InOrder

\* The end: one list has run out, and the rest of the other is sorted by Split.
LEMMA Sorting ==
  ASSUME MInv, RInv, InOrder, pc = "merge", ~More
  PROVE  /\ missing \o MissingAfter(remote) \in Seq(Versions)
         /\ Elements(missing \o MissingAfter(remote)) = Elements(remote) \ Elements(local)
         /\ Elements(unapplied) = OutOfOrder
  <1>1. MTypes /\ Split /\ Sorted
    BY DEF MInv, RInv
  <1>2. /\ i \in 0 .. Len(remote) /\ j \in 0 .. Len(local)
        /\ Len(remote) \in Nat /\ Len(local) \in Nat
        /\ i = Len(remote) \/ j = Len(local)
        /\ \A n \in 1 .. Len(remote) : remote[n] \in Versions
        /\ \A n \in 1 .. Len(local) : local[n] \in Versions
    BY <1>1 DEF MTypes, More
  <1> DEFINE rest == MissingAfter(remote)
  <1>3. rest \in Seq(Versions)
        /\ Elements(rest) = {remote[k] : k \in i + 1 .. Len(remote)}
    <2>1. CASE j = Len(local)
      BY <1>1, <1>2, <2>1, ElementsAfter DEF MissingAfter, MTypes
    <2>2. CASE j # Len(local)
      BY <1>2, <2>2 DEF MissingAfter, Elements
    <2> QED BY <2>1, <2>2
  <1> HIDE DEF rest
  <1>4. Elements(missing \o rest) = Elements(missing) \cup Elements(rest)
    BY <1>1, <1>3, ConcatElements DEF MTypes
  <1>5. ASSUME NEW k \in i + 1 .. Len(remote)
        PROVE  remote[k] \in Elements(remote) \ Elements(local)
    <2>1. k \in 1 .. Len(remote) /\ j = Len(local)
      BY <1>2
    <2>2. \A m \in 1 .. Len(local) : <<local[m], remote[k]>> \in Precedes
      BY <1>1, <2>1 DEF Split
    <2> QED BY <1>2, <2>1, <2>2, PrecedesAssumption DEF Elements
  <1>6. \A k \in 1 .. Len(remote) : k \in 1 .. i \/ k \in i + 1 .. Len(remote)
    BY <1>2
  <1>7. Elements(missing) \cup Elements(rest) = Elements(remote) \ Elements(local)
    <2>1. ASSUME NEW r \in Elements(remote) \ Elements(local)
          PROVE  r \in Elements(missing) \cup Elements(rest)
      <3>1. PICK n \in 1 .. Len(remote) : r = remote[n]
        BY <2>1 DEF Elements
      <3>2. CASE n \in 1 .. i
        BY <1>1, <2>1, <3>1, <3>2 DEF Sorted
      <3>3. CASE n \in i + 1 .. Len(remote)
        BY <1>3, <3>1, <3>3
      <3> QED BY <1>6, <3>1, <3>2, <3>3
    <2>2. Elements(missing) \subseteq Elements(remote) \ Elements(local)
      BY <1>1 DEF Sorted
    <2>3. Elements(rest) \subseteq Elements(remote) \ Elements(local)
      BY <1>3, <1>5
    <2> QED BY <2>1, <2>2, <2>3
  <1>8. ASSUME NEW l \in OutOfOrder PROVE l \in Elements(unapplied)
    <2>1. PICK m \in 1 .. Len(local) : l = local[m]
      BY DEF OutOfOrder, Elements
    <2>2. PICK k \in 1 .. Len(remote) : <<l, remote[k]>> \in Precedes
      BY DEF OutOfOrder, Elements
    <2>3. m \in 1 .. j
      <3> SUFFICES ASSUME m \notin 1 .. j PROVE FALSE
        OBVIOUS
      <3>1. m \in j + 1 .. Len(local) /\ k \in 1 .. i
        BY <1>2
      <3>2. <<remote[k], local[m]>> \in Precedes
        BY <1>1, <3>1 DEF Split
      <3>3. local[m] \in Versions /\ remote[k] \in Versions
        BY <1>2
      <3> QED BY <2>1, <2>2, <3>2, <3>3, PrecedesAssumption
    <2> QED BY <1>1, <2>1, <2>3 DEF Sorted, OutOfOrder
  <1>9. Elements(unapplied) = OutOfOrder
    BY <1>1, <1>8 DEF Sorted
  <1>10. missing \o rest \in Seq(Versions)
    BY <1>1, <1>3 DEF MTypes
  <1> QED BY <1>4, <1>7, <1>9, <1>10 DEF rest

LEMMA NoElements ==
  ASSUME NEW s \in Seq(Versions)
  PROVE  Elements(s) = {} <=> s = <<>>
  <1>1. s # <<>> => Len(s) \in Nat \ {0} /\ 1 \in 1 .. Len(s)
    OBVIOUS
  <1> QED BY <1>1 DEF Elements

LEMMA ReturnRInv == ASSUME MInv, RInv, Return PROVE RInv'
  <1>1. /\ pc = "merge" /\ ~More /\ pc' = "done"
        /\ UNCHANGED <<remote, local, includeAll, i, j, unapplied, missing>>
    BY DEF Return, read, inputs
  <1> DEFINE gone == missing \o MissingAfter(remote)
  <1>2. result' =
          IF gone # <<>> THEN [error |-> "missing local", list |-> gone]
          ELSE IF unapplied = <<>>
          THEN [error |-> "none", list |-> After(local, Len(remote))]
          ELSE IF includeAll
          THEN [error |-> "none", list |-> IncludeAll]
          ELSE [error |-> "missing remote", list |-> unapplied]
    BY DEF Return
  <1> HIDE DEF gone
  <1>3. ASSUME InOrder
        PROVE  /\ result'.error = "missing local" =>
                    Elements(result'.list) = Elements(remote) \ Elements(local)
               /\ result'.error = "missing remote" => Elements(result'.list) = OutOfOrder
               /\ result'.error = "none" => /\ Elements(remote) \subseteq Elements(local)
                                            /\ includeAll \/ OutOfOrder = {}
    <2>1. /\ gone \in Seq(Versions)
          /\ Elements(gone) = Elements(remote) \ Elements(local)
          /\ Elements(unapplied) = OutOfOrder
      BY <1>1, <1>3, Sorting DEF gone
    <2>2. gone = <<>> => Elements(remote) \subseteq Elements(local)
      BY <2>1, NoElements
    <2>3. unapplied = <<>> => OutOfOrder = {}
      BY <2>1 DEF Elements
    <2> QED BY <1>2, <2>1, <2>2, <2>3
  <1>4. /\ InOrder' = InOrder /\ Split' = Split /\ Sorted' = Sorted
        /\ OutOfOrder' = OutOfOrder
        /\ Elements(remote)' = Elements(remote) /\ Elements(local)' = Elements(local)
    BY <1>1 DEF InOrder, Ordered, Split, Sorted, OutOfOrder, Elements
  <1>5. RefusalIsExact'
    BY <1>1, <1>3, <1>4 DEF RefusalIsExact, OutOfOrder, Elements
  <1> QED BY <1>1, <1>4, <1>5 DEF RInv, Ordered

LEMMA StepRInv == MInv /\ RInv /\ [Next]_vars => RInv'
  <1> SUFFICES ASSUME MInv, RInv, [Next]_vars PROVE RInv'
    OBVIOUS
  <1>1. CASE UNCHANGED vars
    <2>1. /\ InOrder' = InOrder /\ Split' = Split /\ Sorted' = Sorted
          /\ Ordered(remote, Precedes)' = Ordered(remote, Precedes)
      BY <1>1 DEF vars, InOrder, Ordered, Split, Sorted, OutOfOrder, Elements
    <2>2. RefusalIsExact' = RefusalIsExact
      BY <1>1, <2>1 DEF vars, RefusalIsExact, Elements
    <2> QED BY <2>1, <2>2 DEF RInv
  <1> QED
    BY <1>1, ListRInv, MatchRInv, MissingRInv, UnappliedRInv, ReturnRInv DEF Next

THEOREM RefusalInvariant == Spec => []RInv
  BY InitRInv, StepRInv, MergeInvariant, PTL DEF Spec

\* Files in the order of their versions: a refusal names all versions that have
\* no file or all out-of-order ones, and without a refusal there are none.
THEOREM RefusesExactly == Spec => []RefusalIsExact
  <1>1. RInv => RefusalIsExact
    BY DEF RInv
  <1> QED BY <1>1, RefusalInvariant, PTL

-----------------------------------------------------------------------------
(***************************************************************************)
(* A file is cut where its statements end.                                 *)
(*                                                                         *)
(* SplitInv relates the two machines: the AtomicStates of the splitter are *)
(* the body and the parentheses that the text is in, its state is the one  *)
(* for the construct the text is in and, in code, for what the text ends   *)
(* with; a depth or a window stands for the rest.                          *)
(***************************************************************************)

CodeParts == {"paren", "left", "body"}
Constructs == CodeParts \cup {"quote", "ident", "line", "block", "empty", "a"}
Has(construct) == \E at \in 1 .. Len(inside) : inside[at] = construct

\* Only code and, in block comments, block comments hold constructs; a body is
\* the outermost one.
Structure ==
  /\ inside \in Seq(Constructs)
  /\ \A at \in 1 .. Len(inside) :
       /\ at < Len(inside) =>
            inside[at] \in CodeParts \/ (inside[at] = "block" /\ Top = "block")
       /\ inside[at] = "body" => at = 1

\* The AtomicStates: that of the body, and around the state those of parentheses.
Nested ==
  /\ DOMAIN split = {"nest", "state", "before", "name", "begun", "cut"}
  /\ split.nest \in Seq({"close", "end"})
  /\ \A k \in 1 .. Len(split.nest) : split.nest[k] = "end" => k = 1
  /\ Has("body") <=> split.nest # <<>> /\ split.nest[1] = "end"
  /\ Has("paren") <=> \E k \in 1 .. Len(split.nest) : split.nest[k] = "close"

\* In a string, and after a quote that may be its last.
Within(r) == [kind |-> "quote", delimiter |-> r, escape |-> FALSE]
Ended(r) == [kind |-> "quote", delimiter |-> r, escape |-> TRUE]

\* What the splitter waits for in code is what the text ends with.
CodeState ==
  CASE glue = "dash" -> split.state = [kind |-> "comment"]
    [] glue = "slash" ->
         split.state = [kind |-> "block", depth |-> 0] /\ split.before = "slash"
    [] glue \in {"quote", "ident"} -> split.state = Ended(glue)
    [] glue \in {"param", "stale"} ->
         split.state = [kind |-> "tag", tag |-> <<"dollar", "digit">>]
    [] glue = "semi" ->
         split.state \in {ReadyState, Ended("quote"), Ended("ident")}
    [] OTHER -> split.state = ReadyState

\* A name at the end of the text, and BEGIN with the space after it.
Spaced == {"begin", "begun", "commented"}
WordsSeen ==
  /\ Named => split.name
  /\ split.begun # "no" => glue \in Spaced
WordsOnly ==
  /\ split.name => Named \/ NoWord
  /\ glue = "begin" => split.begun = "word"
  /\ glue = "begun" => split.begun = "spaced"
Words ==
  /\ Top = "line" => WordsSeen
  /\ InCode => WordsSeen /\ WordsOnly
  /\ Top \in DOMAIN Tags => split.begun = "no"

Waiting(tag, seen) == [kind |-> "dollar", tag |-> tag, seen |-> seen]

\* The runes that the splitter compares with a tag: the last of the text.
WindowOf(c, text) ==
  CASE text = <<>> -> Tail(Tags[c])
    [] Len(text) = 1 /\ c = "empty" -> text
    [] Len(text) = 1 /\ c = "a" -> <<"dollar", text[1]>>
    [] Len(text) = 2 /\ c = "empty" -> <<text[2]>>
    [] Len(text) = 2 /\ c = "a" -> text
Window == WindowOf(Top, content)

StringState == InString => split.state = Within(Top)
LineState ==
  Top = "line" => split.state = Waiting(<<"newline">>, <<>>)
DollarQuote ==
  Top \in DOMAIN Tags =>
    /\ \/ content = <<>> \/ (\E x : content = <<x>>) \/ (\E x, y : content = <<x, y>>)
    /\ split.state = Waiting(Tags[Top], Window)

Block(depth) == [kind |-> "block", depth |-> depth]
BlockState ==
  Top = "block" =>
    /\ split.state = Block(split.state.depth)
    /\ split.state.depth \in 1 .. Len(inside)
    /\ \A at \in 1 .. Len(inside) :
         inside[at] = "block" <=> at > Len(inside) - split.state.depth
    /\ split.before = "star" => glue \in {"star", "opened"}
    /\ split.before = "slash" => glue \in {"slash", "closed"}

\* The invariant behind CutsAtStatements.
SplitInv ==
  /\ Structure /\ Nested /\ Words
  /\ InCode => CodeState
  /\ StringState /\ LineState /\ DollarQuote /\ BlockState
  /\ SplitsAtStatements

-----------------------------------------------------------------------------
\* A token is read symbol by symbol; whether the one before it has ended a
\* statement does not matter.
LEMMA CutIsForgotten ==
  ASSUME Nested, NEW r
  PROVE  Feed([split EXCEPT !.cut = FALSE], r) = Feed(split, r)
<1> DEFINE s == [split EXCEPT !.cut = FALSE]
<1>1. /\ s.nest = split.nest /\ s.state = split.state /\ s.before = split.before
      /\ s.name = split.name /\ s.begun = split.begun
  BY DEF Nested
<1> HIDE DEF s
<1>2. Begun(s, r) = Begun(split, r)
  BY <1>1 DEF Begun
<1>3. Feed(s, r) = Feed(split, r)
  BY <1>1, <1>2 DEF Feed
<1> QED
  BY <1>3 DEF s

LEMMA OneSymbol ==
  ASSUME Nested, NEW r, ScanToken(<<r>>)
  PROVE  split' = Feed(split, r)
<1> DEFINE s == [split EXCEPT !.cut = FALSE]
           Step(f) == [n \in 0 .. 1 |-> IF n = 0 THEN s ELSE Feed(f[n - 1], <<r>>[n])]
           g == [n \in 0 .. 1 |-> IF n = 0 THEN s ELSE Feed(s, r)]
           after == CHOOSE f : f = Step(f)
<1>1. Len(<<r>>) = 1 /\ <<r>>[1] = r
  OBVIOUS
<1>2. split' = after[1]
  BY <1>1 DEF ScanToken
<1> HIDE DEF s
<1>3. g = Step(g)
  BY <1>1
<1>4. after = Step(after)
  BY <1>3
<1> HIDE DEF after
<1>5. after[0] = s /\ after[1] = Feed(after[0], r)
  BY <1>1, <1>4
<1> QED
  BY <1>2, <1>5, CutIsForgotten DEF s

LEMMA TwoSymbols ==
  ASSUME Nested, NEW r, NEW q, ScanToken(<<r, q>>)
  PROVE  split' = Feed(Feed(split, r), q)
<1> DEFINE s == [split EXCEPT !.cut = FALSE]
           t == Feed(s, r)
           Step(f) == [n \in 0 .. 2 |-> IF n = 0 THEN s ELSE Feed(f[n - 1], <<r, q>>[n])]
           g == [n \in 0 .. 2 |-> IF n = 0 THEN s ELSE IF n = 1 THEN t ELSE Feed(t, q)]
           after == CHOOSE f : f = Step(f)
<1>1. Len(<<r, q>>) = 2 /\ <<r, q>>[1] = r /\ <<r, q>>[2] = q
  OBVIOUS
<1>2. split' = after[2]
  BY <1>1 DEF ScanToken
<1>3. t = Feed(s, r)
  OBVIOUS
<1> HIDE DEF s, t
<1>4. g = Step(g)
  BY <1>1, <1>3
<1>5. after = Step(after)
  BY <1>4
<1> HIDE DEF after
<1>6. after[0] = s /\ after[1] = Feed(after[0], r) /\ after[2] = Feed(after[1], q)
  BY <1>1, <1>5
<1> QED
  BY <1>2, <1>3, <1>6, CutIsForgotten DEF s

LEMMA ThreeSymbols ==
  ASSUME Nested, NEW r, NEW q, NEW p, ScanToken(<<r, q, p>>)
  PROVE  split' = Feed(Feed(Feed(split, r), q), p)
<1> DEFINE s == [split EXCEPT !.cut = FALSE]
           t == Feed(s, r)
           u == Feed(t, q)
           Step(f) == [n \in 0 .. 3 |-> IF n = 0 THEN s ELSE Feed(f[n - 1], <<r, q, p>>[n])]
           g == [n \in 0 .. 3 |-> IF n = 0 THEN s ELSE IF n = 1 THEN t
                                  ELSE IF n = 2 THEN u ELSE Feed(u, p)]
           after == CHOOSE f : f = Step(f)
<1>1. Len(<<r, q, p>>) = 3 /\ <<r, q, p>>[1] = r /\ <<r, q, p>>[2] = q /\ <<r, q, p>>[3] = p
  OBVIOUS
<1>2. split' = after[3]
  BY <1>1 DEF ScanToken
<1>3. t = Feed(s, r) /\ u = Feed(t, q)
  OBVIOUS
<1> HIDE DEF s, t, u
<1>4. g = Step(g)
  BY <1>1, <1>3
<1>5. after = Step(after)
  BY <1>4
<1> HIDE DEF after
<1>6. /\ after[0] = s /\ after[1] = Feed(after[0], r)
      /\ after[2] = Feed(after[1], q) /\ after[3] = Feed(after[2], p)
  BY <1>1, <1>5
<1> QED
  BY <1>2, <1>3, <1>6, CutIsForgotten DEF s

-----------------------------------------------------------------------------
\* What one rune makes of the splitter, by what Next returns.
Fed(s, r, nest, state) ==
  [nest |-> nest, state |-> state, before |-> r, name |-> IsIdentifierRune(r),
   begun |-> Begun(s, r), cut |-> FALSE]
NextOf(s, r) == NextState(s.state, r, s.before, s.begun)

LEMMA FeedCases ==
  ASSUME NEW s, s.nest \in Seq({"close", "end"}), NEW r
  PROVE  /\ NextOf(s, r) = Goes(ReadyState) =>
              Feed(s, r) = Fed(s, r, Leave(s.nest, r), ReadyState)
         /\ \A t : NextOf(s, r) = Goes(t) /\ t.kind # "ready" =>
              Feed(s, r) = Fed(s, r, s.nest, t)
         /\ \A d \in {"close", "end"} : NextOf(s, r) = Atomic(d) =>
              Feed(s, r) = Fed(s, r, Append(s.nest, d), ReadyState)
         /\ NextOf(s, r) = Emit =>
              Feed(s, r) = IF s.nest = <<>> THEN [Fresh EXCEPT !.cut = TRUE]
                           ELSE Fed(s, r, s.nest, s.state)
<1> DEFINE n == NextOf(s, r)
<1>1. s.nest \o <<>> = s.nest
  BY ConcatEmptySeq
<1>2. Feed(s, r) =
        IF n.emit /\ s.nest = <<>> THEN [Fresh EXCEPT !.cut = TRUE]
        ELSE Fed(s, r, IF n = Goes(ReadyState) THEN Leave(s.nest, r) ELSE s.nest \o n.opens,
                 IF n.emit THEN s.state ELSE n.state)
  BY DEF Feed, Fed, NextOf
<1> HIDE DEF n
<1>3. n = Goes(ReadyState) => ~n.emit /\ n.state = ReadyState
  BY DEF Goes
<1>4. ASSUME NEW t, n = Goes(t), t.kind # "ready"
      PROVE  n # Goes(ReadyState) /\ n.opens = <<>> /\ ~n.emit /\ n.state = t
  BY <1>4 DEF Goes, ReadyState
<1>5. ASSUME NEW d \in {"close", "end"}, n = Atomic(d)
      PROVE  /\ n # Goes(ReadyState) /\ n.opens = <<d>> /\ ~n.emit /\ n.state = ReadyState
             /\ s.nest \o <<d>> = Append(s.nest, d)
  <2>1. n.opens = <<d>> /\ ~n.emit /\ n.state = ReadyState
    BY <1>5 DEF Atomic
  <2>2. Goes(ReadyState).opens = <<>> /\ <<d>> # <<>>
    BY DEF Goes
  <2>3. s.nest \o <<d>> = Append(s.nest, d)
    BY AppendIsConcat
  <2> QED
    BY <2>1, <2>2, <2>3
<1>6. n = Emit => n # Goes(ReadyState) /\ n.emit /\ n.opens = <<>>
  BY DEF Emit, Goes
<1> QED
  BY <1>1, <1>2, <1>3, <1>4, <1>5, <1>6 DEF n

\* What is left of the AtomicStates.
LEMMA LeftAlone ==
  ASSUME NEW nest \in Seq({"close", "end"}), NEW r,
         nest # <<>> => nest[Len(nest)] # r
  PROVE  Leave(nest, r) = nest
<1>1. Len(nest) \in Nat /\ (nest # <<>> => Len(nest) > 0)
  BY LenProperties, EmptySeq
<1> DEFINE P(k) == /\ k > 0 => nest[k] # r
                   /\ \A m \in k + 1 .. Len(nest) : nest[m] = r
<1>2. P(Len(nest))
  BY <1>1
<1>3. ASSUME NEW k \in 0 .. Len(nest), P(k) PROVE k = Len(nest)
  <2>1. CASE k < Len(nest)
    <3>1. Len(nest) \in k + 1 .. Len(nest) /\ nest # <<>>
      BY <1>1, <2>1
    <3> QED
      BY <1>3, <3>1
  <2> QED
    BY <1>1, <2>1
<1> HIDE DEF P
<1>4. (CHOOSE k \in 0 .. Len(nest) : P(k)) = Len(nest)
  BY <1>1, <1>2, <1>3
<1>5. SubSeq(nest, 1, Len(nest)) = nest
  BY SubSeqFull
<1> QED
  BY <1>4, <1>5 DEF Leave, P

LEMMA LeftByClose ==
  ASSUME NEW nest \in Seq({"close", "end"}),
         \A k \in 1 .. Len(nest) : nest[k] = "end" => k = 1
  PROVE  Leave(nest, "close") =
           IF nest # <<>> /\ nest[1] = "end" THEN <<"end">> ELSE <<>>
<1> DEFINE e == IF nest # <<>> /\ nest[1] = "end" THEN 1 ELSE 0
           P(k) == /\ k > 0 => nest[k] # "close"
                   /\ \A m \in k + 1 .. Len(nest) : nest[m] = "close"
<1>1. /\ Len(nest) \in Nat /\ (nest # <<>> <=> Len(nest) > 0) /\ Len(<<>>) = 0
      /\ \A k \in 1 .. Len(nest) : nest[k] \in {"close", "end"}
  BY LenProperties, EmptySeq, ElementOfSeq
<1>2. e \in 0 .. Len(nest) /\ P(e)
  BY <1>1
<1>3. ASSUME NEW k \in 0 .. Len(nest), P(k) PROVE k = e
  <2>1. k = 0 \/ k = 1
    BY <1>1, <1>3
  <2>2. 1 \in 0 + 1 .. Len(nest) <=> nest # <<>>
    BY <1>1
  <2>3. CASE k = 0
    BY <1>3, <2>2, <2>3
  <2>4. CASE k = 1
    BY <1>1, <1>3, <2>4
  <2> QED
    BY <2>1, <2>3, <2>4
<1> HIDE DEF P
<1>4. (CHOOSE k \in 0 .. Len(nest) : P(k)) = e
  BY <1>2, <1>3
<1>5. Leave(nest, "close") = SubSeq(nest, 1, e)
  BY <1>4 DEF Leave, P
<1>6. CASE e = 0
  BY <1>1, <1>5, <1>6, SubSeqEmpty
<1>7. CASE e = 1
  <2>1. nest[1] = "end" /\ nest # <<>> /\ \A at \in 1 .. 1 : nest[at] \in {"close", "end"}
    BY <1>1, <1>7
  <2>2. /\ SubSeq(nest, 1, 1) \in Seq({"close", "end"}) /\ Len(SubSeq(nest, 1, 1)) = 1
        /\ SubSeq(nest, 1, 1)[1] = nest[1]
    BY <2>1, SubSeqProperties
  <2> DEFINE sub == SubSeq(nest, 1, 1)
  <2>3. sub = <<"end">>
    <3> HIDE DEF sub
    <3>1. <<"end">> \in Seq({"close", "end"}) /\ Len(<<"end">>) = 1 /\ <<"end">>[1] = "end"
      OBVIOUS
    <3>2. sub \in Seq({"close", "end"}) /\ Len(sub) = 1 /\ sub[1] = "end"
      BY <2>1, <2>2 DEF sub
    <3> QED
      BY <3>1, <3>2, SeqEqual
  <2> QED
    BY <1>5, <1>7, <2>1, <2>3
<1> QED
  BY <1>6, <1>7

LEMMA LeftByEnd == Leave(<<"end">>, "end") = <<>>
<1> DEFINE P(k) == /\ k > 0 => <<"end">>[k] # "end"
                   /\ \A m \in k + 1 .. Len(<<"end">>) : <<"end">>[m] = "end"
<1>1. Len(<<"end">>) = 1 /\ <<"end">>[1] = "end"
  OBVIOUS
<1>2. \A k \in 0 .. 1 : P(k) <=> k = 0
  BY <1>1
<1> HIDE DEF P
<1>3. (CHOOSE k \in 0 .. Len(<<"end">>) : P(k)) = 0
  BY <1>1, <1>2
<1>4. SubSeq(<<"end">>, 1, 0) = <<>>
  BY SubSeqEmpty
<1> QED
  BY <1>3, <1>4 DEF Leave, P

-----------------------------------------------------------------------------
\* The construct that the text is in.
LEMMA Tops ==
  ASSUME inside \in Seq(Constructs)
  PROVE  /\ Len(inside) \in Nat /\ (inside # <<>> <=> Len(inside) > 0)
         /\ inside = <<>> => Top = "statement"
         /\ inside # <<>> => Len(inside) \in 1 .. Len(inside) /\ Top = inside[Len(inside)]
                             /\ Top \in Constructs
         /\ \A at \in 1 .. Len(inside) : inside[at] \in Constructs
<1>1. Len(inside) \in Nat /\ (inside # <<>> <=> Len(inside) > 0)
  BY LenProperties, EmptySeq
<1>2. \A at \in 1 .. Len(inside) : inside[at] \in Constructs
  BY ElementOfSeq
<1> QED
  BY <1>1, <1>2 DEF Top, Last

\* In code there is nothing but code around.
LEMMA OnlyCode ==
  ASSUME Structure, InCode
  PROVE  /\ \A at \in 1 .. Len(inside) : inside[at] \in CodeParts
         /\ ~InString /\ Top # "line" /\ Top # "block" /\ Top \notin DOMAIN Tags
<1>1. Top \in {"statement", "paren", "left", "body"}
  BY DEF InCode
<1>2. DOMAIN Tags = {"empty", "a"}
  BY DEF Tags
<1>3. \A at \in 1 .. Len(inside) : at < Len(inside) \/ at = Len(inside)
  BY Tops DEF Structure
<1>4. inside # <<>> => Top = inside[Len(inside)] /\ Top \in CodeParts
  <2>1. "statement" \notin Constructs
    BY DEF Constructs, CodeParts
  <2> QED
    BY <1>1, <2>1, Tops DEF Structure, CodeParts
<1>5. \A at \in 1 .. Len(inside) : inside[at] \in CodeParts
  BY <1>1, <1>3, <1>4, Tops DEF Structure
<1> QED
  BY <1>1, <1>2, <1>5 DEF InString

\* A token that leaves the constructs and the AtomicStates as they are.
LEMMA NestStays ==
  ASSUME Structure, Nested, UNCHANGED inside, NEW t, NEW r, NEW state,
         split' = Fed(t, r, split.nest, state)
  PROVE  Structure' /\ Nested' /\ Top' = Top
<1>1. Top' = Top
  BY DEF Top
<1>2. Structure'
  BY <1>1 DEF Structure
<1>3. split'.nest = split.nest
      /\ DOMAIN split' = {"nest", "state", "before", "name", "begun", "cut"}
  BY DEF Fed
<1>4. Has("body")' = Has("body") /\ Has("paren")' = Has("paren")
  BY DEF Has
<1> QED
  BY <1>1, <1>2, <1>3, <1>4 DEF Nested

\* One that begins something else than code.
LEMMA NestOpens ==
  ASSUME Structure, Nested,
         NEW c \in {"quote", "ident", "line", "block", "empty", "a"},
         InCode \/ (c = "block" /\ Top = "block"),
         inside' = Append(inside, c), NEW t, NEW r, NEW state,
         split' = Fed(t, r, split.nest, state)
  PROVE  /\ Structure' /\ Nested' /\ Top' = c
         /\ Len(inside') = Len(inside) + 1 /\ inside'[Len(inside) + 1] = c
         /\ \A at \in 1 .. Len(inside) : inside'[at] = inside[at]
<1>1. c \in Constructs
  BY DEF Constructs
<1>2. /\ inside' \in Seq(Constructs) /\ inside' # <<>>
      /\ Len(inside') = Len(inside) + 1 /\ inside'[Len(inside) + 1] = c
      /\ \A at \in 1 .. Len(inside) : inside'[at] = inside[at]
  BY <1>1, AppendProperties DEF Structure
<1>3. Len(inside) \in Nat
  BY Tops DEF Structure
<1>4. Top' = c
  BY <1>2 DEF Top, Last
<1>5. \A at \in 1 .. Len(inside) + 1 : at \in 1 .. Len(inside) \/ at = Len(inside) + 1
  BY <1>3
<1>6. ASSUME NEW at \in 1 .. Len(inside)
      PROVE  inside[at] \in CodeParts \/ (inside[at] = "block" /\ c = "block")
  <2>1. CASE InCode
    BY <2>1, OnlyCode
  <2>2. CASE c = "block" /\ Top = "block"
    <3>1. at < Len(inside) \/ at = Len(inside)
      BY <1>3
    <3> QED
      BY <2>2, <3>1, Tops DEF Structure
  <2> QED
    BY <2>1, <2>2
<1>7. Structure'
  <2>1. \A at \in 1 .. Len(inside) + 1 : at < Len(inside) + 1 => at \in 1 .. Len(inside)
    BY <1>3
  <2>2. c # "body"
    OBVIOUS
  <2> QED
    BY <1>2, <1>4, <1>5, <1>6, <2>1, <2>2 DEF Structure
<1>8. split'.nest = split.nest
      /\ DOMAIN split' = {"nest", "state", "before", "name", "begun", "cut"}
  BY DEF Fed
<1>9. (Has("body")' <=> Has("body")) /\ (Has("paren")' <=> Has("paren"))
  <2>1. \A at \in 1 .. Len(inside) : at \in 1 .. Len(inside) + 1
    BY <1>3
  <2>2. c # "body" /\ c # "paren"
    OBVIOUS
  <2> QED
    BY <1>2, <1>5, <2>1, <2>2 DEF Has
<1>10. Nested'
  BY <1>8, <1>9 DEF Nested
<1> QED
  BY <1>2, <1>4, <1>7, <1>10

\* One that ends it.
LEMMA NestCloses ==
  ASSUME Structure, Nested, inside # <<>>, ~InCode,
         Top = "block" => \/ \A at \in 1 .. Len(inside) - 1 : inside[at] # "block"
                          \/ Len(inside) > 1 /\ inside[Len(inside) - 1] = "block",
         inside' = Front(inside), NEW t, NEW r, NEW state,
         split' = Fed(t, r, split.nest, state)
  PROVE  /\ Structure' /\ Nested'
         /\ Len(inside') = Len(inside) - 1
         /\ \A at \in 1 .. Len(inside) - 1 : inside'[at] = inside[at]
         /\ IF Top = "block" /\ Len(inside) > 1 /\ inside[Len(inside) - 1] = "block"
            THEN Top' = "block" ELSE InCode'
<1> DEFINE n == Len(inside)
<1>1. n \in Nat /\ n > 0 /\ n \in 1 .. n /\ Top = inside[n] /\ Top \in Constructs
      /\ \A at \in 1 .. n : inside[at] \in Constructs
  BY Tops DEF Structure
<1>2. inside[n] \notin CodeParts
  BY <1>1 DEF InCode, CodeParts
<1>0. ASSUME NEW k \in Nat, k > 0
      PROVE  /\ k # 1 => k - 1 \in 1 .. k - 1
             /\ (k - 1) - 1 + 1 = k - 1 /\ (~(1 <= k - 1) => k - 1 = 0)
             /\ \A at \in 1 .. k - 1 : 1 + at - 1 = at
  BY <1>0
<1>3. \A at \in 1 .. n - 1 : at \in 1 .. n /\ at < n
  BY <1>1
<1>4. /\ inside' \in Seq(Constructs) /\ Len(inside') = n - 1
      /\ \A at \in 1 .. n - 1 : inside'[at] = inside[at]
  <2>1. \A at \in 1 .. n - 1 : inside[at] \in Constructs
    BY <1>1, <1>3
  <2>2. /\ SubSeq(inside, 1, n - 1) \in Seq(Constructs)
        /\ Len(SubSeq(inside, 1, n - 1)) = IF 1 <= n - 1 THEN (n - 1) - 1 + 1 ELSE 0
        /\ \A at \in 1 .. (n - 1) - 1 + 1 : SubSeq(inside, 1, n - 1)[at] = inside[1 + at - 1]
    BY <1>1, <2>1, SubSeqProperties
  <2>3. (n - 1) - 1 + 1 = n - 1 /\ (~(1 <= n - 1) => n - 1 = 0)
        /\ \A at \in 1 .. n - 1 : 1 + at - 1 = at
    BY <1>0, <1>1
  <2> HIDE DEF n
  <2> QED
    BY <2>2, <2>3 DEF Front, n
<1>5. inside' = <<>> <=> n = 1
  BY <1>1, <1>4, EmptySeq
<1>6. Top' = IF n = 1 THEN "statement" ELSE inside[n - 1]
  <2>1. n # 1 => n - 1 \in 1 .. n - 1
    BY <1>0, <1>1
  <2> QED
    BY <1>4, <1>5, <2>1 DEF Top, Last
<1> DEFINE stays == Top = "block" /\ n > 1 /\ inside[n - 1] = "block"
<1>7. ASSUME ~stays, NEW at \in 1 .. n - 1 PROVE inside[at] \in CodeParts
  BY <1>1, <1>3, <1>7 DEF Structure
<1>8. IF stays THEN Top' = "block" ELSE InCode'
  <2>1. CASE stays
    BY <1>1, <1>6, <2>1
  <2>2. CASE ~stays
    <3>1. n # 1 => n - 1 \in 1 .. n - 1
      BY <1>0, <1>1
    <3>2. Top' \in {"statement"} \cup CodeParts
      BY <1>6, <1>7, <2>2, <3>1
    <3> QED
      BY <2>2, <3>2 DEF InCode, CodeParts
  <2> QED
    BY <2>1, <2>2
<1>9. Structure'
  <2>1. ASSUME NEW at \in 1 .. n - 1
        PROVE  /\ at < n - 1 =>
                    inside'[at] \in CodeParts \/ (inside'[at] = "block" /\ Top' = "block")
               /\ inside'[at] = "body" => at = 1
    <3>1. CASE stays
      BY <1>3, <1>4, <1>8, <3>1 DEF Structure
    <3>2. CASE ~stays
      BY <1>3, <1>4, <1>7, <3>2 DEF Structure
    <3> QED
      BY <3>1, <3>2
  <2> QED
    BY <1>4, <2>1 DEF Structure
<1>10. split'.nest = split.nest
      /\ DOMAIN split' = {"nest", "state", "before", "name", "begun", "cut"}
  BY DEF Fed
<1>11. (Has("body")' <=> Has("body")) /\ (Has("paren")' <=> Has("paren"))
  <2>1. \A at \in 1 .. n : at \in 1 .. n - 1 \/ at = n
    BY <1>1
  <2>2. inside[n] # "body" /\ inside[n] # "paren"
    BY <1>2 DEF CodeParts
  <2> QED
    BY <1>3, <1>4, <2>1, <2>2 DEF Has
<1>12. Nested'
  BY <1>10, <1>11 DEF Nested
<1> QED
  BY <1>4, <1>8, <1>9, <1>12

-----------------------------------------------------------------------------
\* After a step that ends in code.
LEMMA InCodeAgain ==
  ASSUME Structure', Nested', InCode', CodeState', WordsSeen', WordsOnly',
         split'.cut = ends'
  PROVE  SplitInv'
<1>1. Top' \in {"statement", "paren", "left", "body"} /\ DOMAIN Tags = {"empty", "a"}
  BY DEF InCode, Tags
<1>2. ~InString' /\ Top' # "line" /\ Top' # "block" /\ Top' \notin DOMAIN Tags
  BY <1>1 DEF InString
<1>3. (DOMAIN Tags)' = DOMAIN Tags
  BY DEF Tags
<1>4. Words' /\ StringState' /\ LineState' /\ DollarQuote' /\ BlockState'
  BY <1>2, <1>3 DEF Words, StringState, LineState, DollarQuote, BlockState
<1>5. SplitsAtStatements'
  BY DEF SplitsAtStatements
<1> QED
  BY <1>4, <1>5 DEF SplitInv

LEMMA StaysInCode ==
  ASSUME Structure, Nested, InCode, UNCHANGED inside, ~ends',
         NEW t, NEW r, NEW state, split' = Fed(t, r, split.nest, state),
         CodeState', WordsSeen', WordsOnly', ends' = FALSE
  PROVE  SplitInv'
<1>1. Structure' /\ Nested' /\ Top' = Top
  BY NestStays
<1>2. InCode' /\ split'.cut = ends'
  BY <1>1 DEF InCode, Fed
<1> QED
  BY <1>1, <1>2, InCodeAgain

\* What a rune must not be, after what the text ends with, to be read as if
\* there was nothing before it.
Fits(r) ==
  /\ glue = "dash" => r # "dash"
  /\ glue = "slash" => r # "star"
  /\ glue \in {"quote", "ident"} => r # glue
  /\ glue = "semi" => r \notin {"quote", "ident"}
  /\ NoWord => ~InTag(r) /\ r # "dollar"

LEMMA ReadsLikeReady ==
  ASSUME CodeState, NEW r, Fits(r)
  PROVE  NextOf(split, r) = ReadyNext(r, split.begun)
<1> DEFINE s == split.state
           b == split.begun
<1>1. CASE s = ReadyState
  BY <1>1 DEF NextOf, NextState, ReadyState
<1>2. CASE glue = "dash"
  <2>1. s = [kind |-> "comment"] /\ r # "dash"
    BY <1>2 DEF CodeState, Fits
  <2>2. CommentNext(r, b) = ReadyNext(r, b)
    BY <2>1 DEF CommentNext
  <2>3. s.kind = "comment"
    BY <2>1
  <2> QED
    BY <2>2, <2>3 DEF NextOf, NextState
<1>3. CASE glue = "slash"
  <2>1. s = [kind |-> "block", depth |-> 0] /\ r # "star" /\ split.before = "slash"
    BY <1>3 DEF CodeState, Fits
  <2>2. s.kind = "block" /\ s.depth = 0
    BY <2>1
  <2> DEFINE w == <<split.before, r>>
  <2>3. w # <<"slash", "star">> /\ w[2] = r
    BY <2>1
  <2> HIDE DEF w, s
  <2>4. BlockNext(s, w, b) = ReadyNext(r, b)
    BY <2>2, <2>3 DEF BlockNext
  <2> QED
    BY <2>2, <2>4 DEF NextOf, NextState, w, s
<1>4. ASSUME NEW d, s = Ended(d), r # d
      PROVE  NextOf(split, r) = ReadyNext(r, b)
  <2>1. s.kind = "quote" /\ s.delimiter = d /\ s.escape = TRUE
    BY <1>4 DEF Within, Ended
  <2>2. QuoteNext(s, r, b) = ReadyNext(r, b)
    BY <1>4, <2>1 DEF QuoteNext
  <2> QED
    BY <2>1, <2>2 DEF NextOf, NextState
<1>5. CASE glue \in {"quote", "ident"}
  BY <1>4, <1>5 DEF CodeState, Fits
<1>6. CASE glue \in {"param", "stale"}
  <2>1. s = [kind |-> "tag", tag |-> <<"dollar", "digit">>]
    BY <1>6 DEF CodeState
  <2>2. s.kind = "tag" /\ ~InTag(r) /\ r # "dollar"
    BY <1>6, <2>1 DEF Fits, NoWord
  <2>3. TagNext(s, r, b) = ReadyNext(r, b)
    BY <2>2 DEF TagNext
  <2> QED
    BY <2>2, <2>3 DEF NextOf, NextState
<1>7. CASE glue = "semi"
  <2>1. s \in {ReadyState, Ended("quote"), Ended("ident")}
    BY <1>7 DEF CodeState
  <2> QED
    BY <1>1, <1>4, <1>7, <2>1 DEF Fits
<1>8. CASE glue \notin {"dash", "slash", "quote", "ident", "param", "stale", "semi"}
  BY <1>1, <1>8 DEF CodeState
<1> QED
  BY <1>2, <1>3, <1>5, <1>6, <1>7, <1>8

\* The word END ends a body, and a closing parenthesis what it closes.
LEMMA NestFacts ==
  ASSUME Structure, Nested
  PROVE  /\ split.nest \in Seq({"close", "end"})
         /\ split.nest # <<>> => split.nest[Len(split.nest)] \in {"close", "end"}
         /\ split.nest = <<>> <=> ~Has("body") /\ ~Has("paren")
         /\ (Has("body") => Top = "paren") /\ split.nest # <<>> =>
              split.nest[Len(split.nest)] # "end"
         /\ \A c : c \in ToSet(inside) <=> Has(c)
<1> DEFINE nest == split.nest
           n == Len(nest)
<1>1. /\ n \in Nat /\ (nest # <<>> <=> n > 0) /\ (n > 0 => n \in 1 .. n /\ 1 \in 1 .. n)
      /\ \A k \in 1 .. n : nest[k] \in {"close", "end"}
  BY LenProperties, EmptySeq, ElementOfSeq DEF Nested
<1>2. DOMAIN inside = 1 .. Len(inside)
  BY LenProperties DEF Structure
<1>3. \A c : c \in ToSet(inside) <=> Has(c)
  BY <1>2 DEF ToSet, Has
<1>4. nest = <<>> <=> ~Has("body") /\ ~Has("paren")
  BY <1>1 DEF Nested
<1>5. ASSUME Has("body") => Top = "paren", nest # <<>>, nest[n] = "end"
      PROVE  FALSE
  <2>1. n = 1 /\ nest[1] = "end"
    BY <1>1, <1>5 DEF Nested
  <2>2. Has("body")
    BY <1>5, <2>1 DEF Nested
  <2>3. Top = "paren" /\ inside # <<>>
    BY <1>5, <2>2, Tops DEF Structure
  <2>4. Has("paren")
    BY <2>3, Tops DEF Structure, Has
  <2> QED
    BY <2>1, <2>4 DEF Nested
<1> QED
  BY <1>1, <1>3, <1>4, <1>5 DEF Nested

Special == {"dollar", "quote", "ident", "dash", "slash", "backslash", "semi", "open"}

LEMMA PlainRune ==
  ASSUME NEW s, s.nest \in Seq({"close", "end"}), NEW r,
         NextOf(s, r) = ReadyNext(r, s.begun),
         r \notin Special, r = "atomic" => s.begun # "spaced"
  PROVE  Feed(s, r) = Fed(s, r, Leave(s.nest, r), ReadyState)
<1>1. ReadyNext(r, s.begun) = Goes(ReadyState)
  BY DEF ReadyNext, Special
<1> QED
  BY <1>1, FeedCases

\* A rune in code that means nothing by itself.
LEMMA PlainCode ==
  ASSUME Structure, Nested, CodeState, NEW r, Fits(r),
         r \notin Special \cup {"close"}, r = "atomic" => split.begun # "spaced",
         r = "end" => (Has("body") => Top = "paren")
  PROVE  Feed(split, r) = Fed(split, r, split.nest, ReadyState)
<1>1. Feed(split, r) = Fed(split, r, Leave(split.nest, r), ReadyState)
  BY ReadsLikeReady, NestFacts, PlainRune
<1>2. split.nest # <<>> => split.nest[Len(split.nest)] # r
  BY NestFacts
<1>3. Leave(split.nest, r) = split.nest
  BY <1>2, NestFacts, LeftAlone
<1> QED
  BY <1>1, <1>3

\* The states that ReadyNext goes to from code.
LEMMA FromReady ==
  ASSUME Structure, Nested, CodeState, NEW r, Fits(r)
  PROVE  /\ r = "dollar" =>
              Feed(split, r) = Fed(split, r, split.nest, [kind |-> "tag", tag |-> <<r>>])
         /\ r \in {"quote", "ident"} =>
              Feed(split, r) = Fed(split, r, split.nest, Within(r))
         /\ r = "dash" => Feed(split, r) = Fed(split, r, split.nest, [kind |-> "comment"])
         /\ r = "slash" =>
              Feed(split, r) = Fed(split, r, split.nest, [kind |-> "block", depth |-> 0])
         /\ r = "backslash" =>
              Feed(split, r) = Fed(split, r, split.nest, [kind |-> "escape"])
<1>1. NextOf(split, r) = ReadyNext(r, split.begun)
  BY ReadsLikeReady
<1>2. split.nest \in Seq({"close", "end"})
  BY DEF Nested
<1>3. ASSUME NEW t, ReadyNext(r, split.begun) = Goes(t), t.kind # "ready"
      PROVE  Feed(split, r) = Fed(split, r, split.nest, t)
  BY <1>1, <1>2, <1>3, FeedCases
<1>4. CASE r = "dollar"
  <2>1. ReadyNext(r, split.begun) = Goes([kind |-> "tag", tag |-> <<r>>])
    BY <1>4 DEF ReadyNext
  <2> QED
    BY <1>3, <1>4, <2>1
<1>5. CASE r \in {"quote", "ident"}
  <2>1. ReadyNext(r, split.begun) = Goes(Within(r)) /\ Within(r).kind = "quote"
    BY <1>5 DEF ReadyNext, Within, Ended
  <2> QED
    BY <1>3, <1>5, <2>1
<1>6. CASE r = "dash"
  <2>1. ReadyNext(r, split.begun) = Goes([kind |-> "comment"])
    BY <1>6 DEF ReadyNext
  <2> QED
    BY <1>3, <1>6, <2>1
<1>7. CASE r = "slash"
  <2>1. ReadyNext(r, split.begun) = Goes([kind |-> "block", depth |-> 0])
    BY <1>7 DEF ReadyNext
  <2> QED
    BY <1>3, <1>7, <2>1
<1>8. CASE r = "backslash"
  <2>1. ReadyNext(r, split.begun) = Goes([kind |-> "escape"])
    BY <1>8 DEF ReadyNext
  <2> QED
    BY <1>3, <1>8, <2>1
<1> QED
  BY <1>4, <1>5, <1>6, <1>7, <1>8

-----------------------------------------------------------------------------
\* The steps in code, one for each kind of token.
CodeInv ==
  Structure /\ Nested /\ InCode /\ CodeState /\ WordsSeen /\ WordsOnly

LEMMA CodeHas == SplitInv /\ InCode => CodeInv
BY DEF SplitInv, Words, CodeInv

\* What the last rune says of the words at the end of the text.
LEMMA Runes ==
  /\ \A r \in {"letter", "digit", "torn", "begin", "atomic", "end", "dollar"} : IsIdentifierRune(r)
  /\ \A r \in {"space", "newline", "dash", "slash", "star", "semi", "open", "close", "quote",
               "ident", "backslash"} : ~IsIdentifierRune(r)
  /\ ~Space("letter") /\ Space("space") /\ Space("newline")
  /\ \A r \in {"letter", "digit", "torn", "begin", "atomic", "end", "dollar", "dash", "slash",
               "star", "semi", "open", "close", "quote", "ident", "backslash"} : ~Space(r)
BY DEF IsIdentifierRune, InTag, Word, Space

LEMMA NotBegun ==
  ASSUME NEW s, NEW r, r # "begin", ~Space(r)
  PROVE  Begun(s, r) = "no"
BY DEF Begun

LEMMA NameStep ==
  ASSUME CodeInv, Name
  PROVE  SplitInv'
<1>1. PICK r \in {"letter", "digit", "torn", "begin", "atomic", "end"} :
        /\ ~NoWord /\ (r = "end" /\ "body" \in ToSet(inside) => Top = "paren")
        /\ r = "atomic" => glue \notin {"begun", "commented"}
        /\ Token(IF r = "torn" THEN <<"letter", "torn">> ELSE <<r>>, WordGlue(r))
        /\ UNCHANGED inside
  BY DEF Name
<1>2. Structure /\ Nested /\ CodeState
  BY DEF CodeInv
<1> DEFINE first == IF r = "torn" THEN "letter" ELSE r
           seen == Fed(split, first, split.nest, ReadyState)
<1>3. Feed(split, first) = seen
  <2>1. Fits(first)
    BY <1>1 DEF Fits, NoWord
  <2>2. first \notin Special \cup {"close"}
    BY DEF Special
  <2>3. first = "atomic" => split.begun # "spaced"
    BY <1>1 DEF CodeInv, WordsSeen, WordsOnly, Spaced
  <2>4. first = "end" => (Has("body") => Top = "paren")
    BY <1>1, <1>2, NestFacts
  <2> HIDE DEF first
  <2> QED
    BY <1>2, <2>1, <2>2, <2>3, <2>4, PlainCode
<1>4. /\ glue' = IF r = "begin" /\ ~Named THEN "begin" ELSE "letter"
      /\ ends' = FALSE /\ UNCHANGED inside
      /\ ScanToken(IF r = "torn" THEN <<"letter", "torn">> ELSE <<r>>)
  BY <1>1 DEF Token, WordGlue
<1>5. \E t : split' = Fed(t, r, split.nest, ReadyState)
             /\ (r = "begin" => t = split)
  <2>1. CASE r = "torn"
    <3>1. split' = Feed(Feed(split, "letter"), "torn")
      BY <1>2, <1>4, <2>1, TwoSymbols
    <3>2. Feed(split, "letter") = seen
      BY <1>3, <2>1
    <3>3. seen.nest = split.nest /\ seen.state = ReadyState
      BY DEF Fed
    <3> HIDE DEF seen
    <3>4. NextOf(seen, "torn") = ReadyNext("torn", seen.begun)
      BY <3>3 DEF NextOf, NextState, ReadyState
    <3>5. /\ split.nest \in Seq({"close", "end"})
          /\ split.nest # <<>> => split.nest[Len(split.nest)] # "torn"
      BY <1>2, NestFacts
    <3>6. Leave(split.nest, "torn") = split.nest
      BY <3>5, LeftAlone
    <3>7. Feed(seen, "torn") = Fed(seen, "torn", Leave(seen.nest, "torn"), ReadyState)
      BY <3>3, <3>4, <3>5, PlainRune DEF Special
    <3> QED
      BY <2>1, <3>1, <3>2, <3>3, <3>6, <3>7
  <2>2. CASE r # "torn"
    <3>1. split' = Feed(split, r)
      BY <1>2, <1>4, <2>2, OneSymbol
    <3> QED
      BY <1>3, <2>2, <3>1
  <2> QED
    BY <2>1, <2>2
<1>6. PICK t : split' = Fed(t, r, split.nest, ReadyState) /\ (r = "begin" => t = split)
  BY <1>5
<1>7. /\ split'.state = ReadyState /\ split'.name = IsIdentifierRune(r)
      /\ split'.begun = Begun(t, r)
  BY <1>6 DEF Fed
<1>8. CodeState'
  BY <1>4, <1>7 DEF CodeState
<1>9. WordsSeen' /\ WordsOnly'
  <2>1. split'.name /\ Named'
    BY <1>4, <1>7, Runes DEF Named
  <2>2. r # "begin" => split'.begun = "no" /\ glue' = "letter"
    BY <1>4, <1>7, NotBegun, Runes
  <2>3. r = "begin" /\ Named => split'.begun = "no" /\ glue' = "letter"
    <3>1. r = "begin" /\ Named => split.name /\ ~Space(r) /\ t = split
      BY <1>6, Runes DEF CodeInv, WordsSeen
    <3>2. ASSUME split.name, ~Space("begin") PROVE Begun(split, "begin") = "no"
      BY <3>2 DEF Begun
    <3> QED
      BY <1>4, <1>7, <3>1, <3>2
  <2>4. r = "begin" /\ ~Named => split'.begun = "word" /\ glue' = "begin"
    <3>1. r = "begin" /\ ~Named => ~split.name /\ t = split
      BY <1>1, <1>6 DEF CodeInv, WordsOnly
    <3>2. ASSUME ~split.name, ~Space("begin") PROVE Begun(split, "begin") = "word"
      BY <3>2 DEF Begun
    <3> QED
      BY <1>4, <1>7, <3>1, <3>2, Runes
  <2> QED
    BY <2>1, <2>2, <2>3, <2>4 DEF WordsSeen, WordsOnly, Spaced
<1> QED
  BY <1>2, <1>4, <1>6, <1>8, <1>9, StaysInCode DEF CodeInv

LEMMA WhiteStep ==
  ASSUME CodeInv, White
  PROVE  SplitInv'
<1>1. PICK r \in {"space", "newline"} : Token(<<r>>, Blank("begun")) /\ UNCHANGED inside
  BY DEF White
<1>2. Structure /\ Nested /\ CodeState
  BY DEF CodeInv
<1>3. split' = Feed(split, r) /\ glue' = Blank("begun") /\ ends' = FALSE
  BY <1>1, <1>2, OneSymbol DEF Token
<1>4. Fits(r)
  BY DEF Fits, InTag, Word
<1>5. split' = Fed(split, r, split.nest, ReadyState)
  BY <1>2, <1>3, <1>4, PlainCode DEF Special
<1>6. /\ split'.state = ReadyState /\ ~split'.name
      /\ split'.begun = IF split.begun # "no" THEN "spaced" ELSE "no"
  BY <1>5, Runes DEF Fed, Begun
<1>7. /\ glue' \in {"begun", "commented", "space"}
      /\ glue \in Spaced => glue' \in {"begun", "commented"}
      /\ glue' = "begun" => glue \in {"begin", "begun"}
  BY <1>3 DEF Blank, Spaced
<1>8. CodeState'
  BY <1>6, <1>7 DEF CodeState
<1>9. WordsSeen' /\ WordsOnly'
  BY <1>6, <1>7 DEF CodeInv, WordsSeen, WordsOnly, Named, Spaced
<1> QED
  BY <1>1, <1>2, <1>3, <1>5, <1>8, <1>9, StaysInCode DEF CodeInv

\* After a token that ends with no word, and is no space.
LEMMA NoWords ==
  ASSUME ~split'.name, split'.begun = "no", glue' \notin {"letter", "begin", "begun"}
  PROVE  WordsSeen' /\ WordsOnly'
BY DEF WordsSeen, WordsOnly, Named

LEMMA OperatorStep ==
  ASSUME CodeInv, Operator
  PROVE  SplitInv'
<1>1. PICK r \in {"dash", "slash", "star"} :
        /\ glue # (CASE r = "dash" -> "dash" [] r = "star" -> "slash" [] OTHER -> "none")
        /\ Token(<<r>>, r) /\ UNCHANGED inside
  BY DEF Operator
<1>2. Structure /\ Nested /\ CodeState
  BY DEF CodeInv
<1>3. split' = Feed(split, r) /\ glue' = r /\ ends' = FALSE
  BY <1>1, <1>2, OneSymbol DEF Token
<1>4. Fits(r)
  BY <1>1 DEF Fits, InTag, Word
<1>5. PICK state : /\ split' = Fed(split, r, split.nest, state)
                   /\ r = "dash" => state = [kind |-> "comment"]
                   /\ r = "slash" => state = [kind |-> "block", depth |-> 0]
                   /\ r = "star" => state = ReadyState
  <2>1. CASE r = "star"
    BY <1>2, <1>3, <1>4, <2>1, PlainCode DEF Special
  <2>2. CASE r \in {"dash", "slash"}
    BY <1>2, <1>3, <1>4, <2>2, FromReady
  <2> QED
    BY <2>1, <2>2
<1>6. /\ split'.state = state /\ split'.before = r /\ ~split'.name /\ split'.begun = "no"
  BY <1>5, Runes, NotBegun DEF Fed
<1>7. CodeState'
  BY <1>3, <1>5, <1>6 DEF CodeState
<1>8. WordsSeen' /\ WordsOnly'
  BY <1>3, <1>6, NoWords
<1> QED
  BY <1>1, <1>2, <1>3, <1>5, <1>7, <1>8, StaysInCode DEF CodeInv

LEMMA SemiStep ==
  ASSUME CodeInv, Semi
  PROVE  SplitInv'
<1>1. /\ glue \notin {"dash", "slash"} /\ ScanToken(<<"semi">>)
      /\ inside # <<>> => {"paren", "body"} \cap ToSet(inside) # {}
      /\ ends' = (inside = <<>>)
      /\ glue' = IF inside # <<>> /\ glue \in {"param", "stale"} THEN "stale" ELSE "semi"
      /\ UNCHANGED inside
  BY DEF Semi
<1>2. Structure /\ Nested /\ CodeState /\ InCode
  BY DEF CodeInv
<1>3. split' = Feed(split, "semi")
  BY <1>1, <1>2, OneSymbol
<1>4. Fits("semi")
  BY <1>1 DEF Fits, InTag, Word
<1>5. NextOf(split, "semi") = Emit
  BY <1>2, <1>4, ReadsLikeReady DEF ReadyNext
<1>6. split' = IF split.nest = <<>> THEN [Fresh EXCEPT !.cut = TRUE]
               ELSE Fed(split, "semi", split.nest, split.state)
  BY <1>2, <1>3, <1>5, FeedCases, NestFacts
<1>7. split.nest = <<>> <=> inside = <<>>
  <2>1. inside = <<>> => ~Has("body") /\ ~Has("paren")
    BY <1>2, Tops DEF Has, Structure
  <2> QED
    BY <1>1, <1>2, <2>1, NestFacts
<1>8. CASE inside = <<>>
  <2>1. split' = [Fresh EXCEPT !.cut = TRUE]
    BY <1>6, <1>7, <1>8
  <2>2. /\ DOMAIN split' = {"nest", "state", "before", "name", "begun", "cut"}
        /\ split'.nest = <<>> /\ split'.state = ReadyState /\ split'.name = FALSE
        /\ split'.begun = "no" /\ split'.cut = TRUE
    BY <2>1 DEF Fresh
  <2>3. Structure' /\ InCode' /\ Has("body")' = Has("body") /\ Has("paren")' = Has("paren")
    BY <1>1, <1>2 DEF Structure, InCode, Top, Has
  <2>4. Nested'
    <3>1. ~Has("body") /\ ~Has("paren") /\ Len(<<>>) = 0 /\ <<>> \in Seq({"close", "end"})
      BY <1>2, <1>7, <1>8, NestFacts
    <3> QED
      BY <2>2, <2>3, <3>1 DEF Nested
  <2>5. glue' = "semi"
    BY <1>1, <1>8
  <2>6. CodeState'
    BY <2>2, <2>5 DEF CodeState
  <2>7. WordsSeen' /\ WordsOnly'
    BY <2>2, <2>5, NoWords
  <2> QED
    BY <1>1, <1>8, <2>2, <2>3, <2>4, <2>6, <2>7, InCodeAgain
<1>9. CASE inside # <<>>
  <2>1. split' = Fed(split, "semi", split.nest, split.state)
    BY <1>6, <1>7, <1>9
  <2>2. split'.state = split.state /\ ~split'.name /\ split'.begun = "no"
    BY <2>1, Runes, NotBegun DEF Fed
  <2>3. CodeState'
    <3>1. CASE glue \in {"param", "stale"}
      BY <1>1, <1>2, <1>9, <2>2, <3>1 DEF CodeState
    <3>2. CASE glue \in {"quote", "ident", "semi"}
      BY <1>1, <1>2, <2>2, <3>2 DEF CodeState
    <3>3. CASE glue \notin {"param", "stale", "quote", "ident", "semi"}
      BY <1>1, <1>2, <2>2, <3>3 DEF CodeState
    <3> QED
      BY <3>1, <3>2, <3>3
  <2>4. WordsSeen' /\ WordsOnly'
    BY <1>1, <2>2, NoWords
  <2>5. ends' = FALSE
    BY <1>1, <1>9
  <2> QED
    BY <1>1, <1>2, <2>1, <2>3, <2>4, <2>5, StaysInCode
<1> QED
  BY <1>8, <1>9

LEMMA ParameterStep ==
  ASSUME CodeInv, Parameter
  PROVE  SplitInv'
<1>1. /\ ~NoWord /\ Token(<<"dollar", "digit">>, "param") /\ UNCHANGED inside
  BY DEF Parameter
<1>2. Structure /\ Nested /\ CodeState
  BY DEF CodeInv
<1> DEFINE s == Fed(split, "dollar", split.nest, [kind |-> "tag", tag |-> <<"dollar">>])
           tag == [kind |-> "tag", tag |-> <<"dollar", "digit">>]
<1>3. Feed(split, "dollar") = s
  <2>1. Fits("dollar")
    BY <1>1 DEF Fits
  <2> QED
    BY <1>2, <2>1, FromReady
<1>4. split' = Feed(s, "digit") /\ glue' = "param" /\ ends' = FALSE
  BY <1>1, <1>2, <1>3, TwoSymbols DEF Token
<1>5. s.nest = split.nest /\ s.state = [kind |-> "tag", tag |-> <<"dollar">>]
  BY DEF Fed
<1> HIDE DEF s
<1>6. NextOf(s, "digit") = Goes(tag)
  <2>1. [s.state EXCEPT !.tag = Append(@, "digit")] = tag
    BY <1>5
  <2>2. TagNext(s.state, "digit", s.begun) = Goes(tag)
    BY <2>1 DEF TagNext, InTag
  <2> QED
    BY <1>5, <2>2 DEF NextOf, NextState
<1>7. split' = Fed(s, "digit", split.nest, tag)
  BY <1>2, <1>4, <1>5, <1>6, FeedCases, NestFacts
<1>8. split'.state = tag /\ split'.name /\ split'.begun = "no"
  BY <1>7, Runes, NotBegun DEF Fed
<1>9. CodeState'
  BY <1>4, <1>8 DEF CodeState
<1>10. WordsSeen' /\ WordsOnly'
  BY <1>4, <1>8 DEF WordsSeen, WordsOnly, Named, NoWord
<1> QED
  BY <1>1, <1>2, <1>4, <1>7, <1>9, <1>10, StaysInCode DEF CodeInv

LEMMA EscapeStep ==
  ASSUME CodeInv, Escape
  PROVE  SplitInv'
<1>1. Token(<<"backslash", "semi">>, "other") /\ UNCHANGED inside
  BY DEF Escape
<1>2. Structure /\ Nested /\ CodeState
  BY DEF CodeInv
<1> DEFINE s == Fed(split, "backslash", split.nest, [kind |-> "escape"])
<1>3. Feed(split, "backslash") = s
  <2>1. Fits("backslash")
    BY DEF Fits, InTag, Word
  <2> QED
    BY <1>2, <2>1, FromReady
<1>4. split' = Feed(s, "semi") /\ glue' = "other" /\ ends' = FALSE
  BY <1>1, <1>2, <1>3, TwoSymbols DEF Token
<1>5. s.nest = split.nest /\ s.state = [kind |-> "escape"]
  BY DEF Fed
<1> HIDE DEF s
<1>6. NextOf(s, "semi") = Goes(ReadyState)
  BY <1>5 DEF NextOf, NextState
<1>7. Leave(s.nest, "semi") = split.nest
  <2>1. /\ split.nest \in Seq({"close", "end"})
        /\ split.nest # <<>> => split.nest[Len(split.nest)] # "semi"
    BY <1>2, NestFacts
  <2> QED
    BY <1>5, <2>1, LeftAlone
<1>8. split' = Fed(s, "semi", split.nest, ReadyState)
  BY <1>2, <1>4, <1>5, <1>6, <1>7, FeedCases, NestFacts
<1>9. split'.state = ReadyState /\ ~split'.name /\ split'.begun = "no"
  BY <1>8, Runes, NotBegun DEF Fed
<1>10. CodeState'
  BY <1>4, <1>9 DEF CodeState
<1>11. WordsSeen' /\ WordsOnly'
  BY <1>4, <1>9, NoWords
<1> QED
  BY <1>1, <1>2, <1>4, <1>8, <1>10, <1>11, StaysInCode DEF CodeInv

\* A body and parentheses.
LEMMA OpenParenStep ==
  ASSUME CodeInv, OpenParen
  PROVE  SplitInv'
<1>1. inside' = Append(inside, "paren") /\ Token(<<"open">>, "other")
  BY DEF OpenParen, Open
<1>2. Structure /\ Nested /\ CodeState /\ InCode
  BY DEF CodeInv
<1>3. split' = Feed(split, "open") /\ glue' = "other" /\ ends' = FALSE
  BY <1>1, <1>2, OneSymbol DEF Token
<1>4. Fits("open")
  BY DEF Fits, InTag, Word
<1>5. NextOf(split, "open") = Atomic("close")
  BY <1>2, <1>4, ReadsLikeReady DEF ReadyNext
<1>6. split' = Fed(split, "open", Append(split.nest, "close"), ReadyState)
  BY <1>2, <1>3, <1>5, FeedCases, NestFacts
<1>7. /\ DOMAIN split' = {"nest", "state", "before", "name", "begun", "cut"}
      /\ split'.nest = Append(split.nest, "close") /\ split'.state = ReadyState
      /\ split'.name = IsIdentifierRune("open") /\ split'.begun = Begun(split, "open")
      /\ split'.cut = FALSE
  BY <1>6 DEF Fed
<1>8. ~split'.name /\ split'.begun = "no"
  BY <1>7, Runes, NotBegun
<1>9. CodeState' /\ WordsSeen' /\ WordsOnly'
  BY <1>3, <1>7, <1>8, NoWords DEF CodeState
<1> DEFINE n == Len(inside)
<1>10. "paren" \in Constructs
  BY DEF Constructs, CodeParts
<1>11. /\ inside' \in Seq(Constructs) /\ inside' # <<>> /\ Len(inside') = n + 1
       /\ inside'[n + 1] = "paren" /\ \A at \in 1 .. n : inside'[at] = inside[at]
  BY <1>1, <1>2, <1>10, AppendProperties DEF Structure
<1>12. n \in Nat /\ n + 1 \in 1 .. n + 1
       /\ \A at \in 1 .. n + 1 : (at \in 1 .. n /\ at < n + 1) \/ at = n + 1
  BY <1>2, Tops DEF Structure
<1>13. Top' = "paren"
  BY <1>11 DEF Top, Last
<1>14. Structure'
  <2>1. ASSUME NEW at \in 1 .. n + 1
        PROVE  /\ at < n + 1 => inside'[at] \in CodeParts
               /\ inside'[at] = "body" => at = 1
    BY <1>2, <1>11, <1>12, OnlyCode DEF Structure
  <2> QED
    BY <1>11, <2>1 DEF Structure
<1>15. (Has("body")' <=> Has("body")) /\ Has("paren")'
  <2>1. \A at \in 1 .. n : at \in 1 .. n + 1
    BY <1>12
  <2> QED
    BY <1>11, <1>12, <2>1 DEF Has
<1> DEFINE m == Len(split.nest)
<1>16. /\ split'.nest \in Seq({"close", "end"}) /\ split'.nest # <<>>
       /\ Len(split'.nest) = m + 1 /\ split'.nest[m + 1] = "close"
       /\ \A k \in 1 .. m : split'.nest[k] = split.nest[k]
  BY <1>2, <1>7, AppendProperties, NestFacts
<1>17. /\ m \in Nat /\ (split.nest # <<>> <=> m > 0) /\ m + 1 \in 1 .. m + 1
       /\ \A k \in 1 .. m + 1 : k \in 1 .. m \/ k = m + 1
       /\ m > 0 => 1 \in 1 .. m
  BY <1>2, NestFacts, LenProperties, EmptySeq
<1>18. \A k \in 1 .. m + 1 : split'.nest[k] = "end" => k = 1
  BY <1>2, <1>16, <1>17 DEF Nested
<1>19. split'.nest[1] = "end" <=> split.nest # <<>> /\ split.nest[1] = "end"
  <2>1. CASE m = 0
    BY <1>16, <1>17, <2>1
  <2>2. CASE m > 0
    BY <1>16, <1>17, <2>2
  <2> QED
    BY <1>17, <2>1, <2>2
<1>20. Nested'
  BY <1>2, <1>7, <1>15, <1>16, <1>17, <1>18, <1>19 DEF Nested
<1>21. InCode'
  BY <1>13 DEF InCode
<1> QED
  BY <1>3, <1>7, <1>9, <1>14, <1>20, <1>21, InCodeAgain

LEMMA CloseParenStep ==
  ASSUME CodeInv, CloseParen
  PROVE  SplitInv'
<1> DEFINE n == Len(inside)
<1>1. /\ Top \in {"paren", "left"}
      /\ inside' = [k \in 1 .. n - 1 |-> IF inside[k] = "paren" THEN "left" ELSE inside[k]]
      /\ Token(<<"close">>, "other")
  BY DEF CloseParen
<1>2. Structure /\ Nested /\ CodeState /\ InCode
  BY DEF CodeInv
<1>3. split' = Feed(split, "close") /\ glue' = "other" /\ ends' = FALSE
  BY <1>1, <1>2, OneSymbol DEF Token
<1>4. Fits("close")
  BY DEF Fits, InTag, Word
<1> DEFINE left == IF split.nest # <<>> /\ split.nest[1] = "end" THEN <<"end">> ELSE <<>>
<1>5. split' = Fed(split, "close", left, ReadyState)
  <2>1. NextOf(split, "close") = ReadyNext("close", split.begun)
    BY <1>2, <1>4, ReadsLikeReady
  <2>2. Feed(split, "close") = Fed(split, "close", Leave(split.nest, "close"), ReadyState)
    BY <1>2, <2>1, NestFacts, PlainRune DEF Special
  <2>3. Leave(split.nest, "close") = left
    BY <1>2, NestFacts, LeftByClose DEF Nested
  <2> QED
    BY <1>3, <2>2, <2>3
<1>6. left = (IF Has("body") THEN <<"end">> ELSE <<>>)
  BY <1>2 DEF Nested
<1> HIDE DEF left
<1>7. /\ DOMAIN split' = {"nest", "state", "before", "name", "begun", "cut"}
      /\ split'.nest = left /\ split'.state = ReadyState
      /\ split'.name = IsIdentifierRune("close") /\ split'.begun = Begun(split, "close")
      /\ split'.cut = FALSE
  BY <1>5 DEF Fed
<1>8. ~split'.name /\ split'.begun = "no"
  BY <1>7, Runes, NotBegun
<1>9. CodeState' /\ WordsSeen' /\ WordsOnly'
  BY <1>3, <1>7, <1>8, NoWords DEF CodeState
<1>10. /\ n \in Nat /\ n > 0 /\ Top = inside[n]
       /\ \A at \in 1 .. n - 1 : at \in 1 .. n
       /\ \A at \in 1 .. n : at \in 1 .. n - 1 \/ at = n
       /\ n - 1 \in Nat /\ (n # 1 => n - 1 \in 1 .. n - 1)
  BY <1>1, <1>2, Tops DEF Structure
<1>11. \A at \in 1 .. n - 1 : /\ inside'[at] \in CodeParts /\ inside'[at] # "paren"
                              /\ inside'[at] = "body" <=> inside[at] = "body"
  <2>1. \A at \in 1 .. n - 1 : inside[at] \in CodeParts
    BY <1>2, <1>10, OnlyCode
  <2> QED
    BY <1>1, <2>1 DEF CodeParts
<1>12. inside' \in Seq(Constructs) /\ Len(inside') = n - 1 /\ (inside' = <<>> <=> n = 1)
  <2>1. inside' \in [1 .. n - 1 -> Constructs]
    BY <1>1, <1>11 DEF Constructs
  <2>2. inside' \in Seq(Constructs)
    BY <1>10, <2>1, IsASeq
  <2>3. Len(inside') = n - 1
    BY <1>1, <1>10, <2>2, LenProperties
  <2> QED
    BY <1>10, <2>2, <2>3, EmptySeq
<1>13. Top' \in {"statement"} \cup CodeParts
  BY <1>10, <1>11, <1>12 DEF Top, Last
<1>14. Structure'
  BY <1>2, <1>10, <1>11, <1>12 DEF Structure
<1>15. (Has("body")' <=> Has("body")) /\ ~Has("paren")'
  BY <1>1, <1>10, <1>11, <1>12 DEF Has
<1>16. Nested'
  <2>1. CASE Has("body")
    <3>1. left = <<"end">> /\ left \in Seq({"close", "end"}) /\ Len(left) = 1 /\ left[1] = "end"
      BY <1>6, <2>1
    <3> QED
      BY <1>7, <1>15, <2>1, <3>1 DEF Nested
  <2>2. CASE ~Has("body")
    <3>1. left = <<>> /\ left \in Seq({"close", "end"}) /\ Len(left) = 0
      BY <1>6, <2>2
    <3> QED
      BY <1>7, <1>15, <2>2, <3>1 DEF Nested
  <2> QED
    BY <2>1, <2>2
<1>17. InCode'
  BY <1>13 DEF InCode, CodeParts
<1> QED
  BY <1>3, <1>7, <1>9, <1>14, <1>16, <1>17, InCodeAgain

LEMMA BeginBodyStep ==
  ASSUME CodeInv, BeginBody
  PROVE  SplitInv'
<1>1. /\ inside = <<>> /\ glue = "begun"
      /\ inside' = Append(inside, "body") /\ Token(<<"atomic">>, "alone")
  BY DEF BeginBody, Open
<1>2. Structure /\ Nested /\ CodeState /\ InCode /\ WordsOnly
  BY DEF CodeInv
<1>3. split' = Feed(split, "atomic") /\ glue' = "alone" /\ ends' = FALSE
  BY <1>1, <1>2, OneSymbol DEF Token
<1>4. Fits("atomic") /\ split.begun = "spaced"
  BY <1>1, <1>2 DEF Fits, NoWord, WordsOnly
<1>5. NextOf(split, "atomic") = Atomic("end")
  BY <1>2, <1>4, ReadsLikeReady DEF ReadyNext
<1>6. split.nest = <<>>
  <2>1. ~Has("body") /\ ~Has("paren")
    BY <1>1 DEF Has
  <2> QED
    BY <1>2, <2>1, NestFacts
<1>7. split' = Fed(split, "atomic", <<"end">>, ReadyState)
  <2>1. Feed(split, "atomic") = Fed(split, "atomic", Append(split.nest, "end"), ReadyState)
    BY <1>2, <1>5, FeedCases, NestFacts
  <2>2. Append(split.nest, "end") = <<"end">>
    BY <1>6
  <2> QED
    BY <1>3, <2>1, <2>2
<1>8. /\ DOMAIN split' = {"nest", "state", "before", "name", "begun", "cut"}
      /\ split'.nest = <<"end">> /\ split'.state = ReadyState
      /\ split'.begun = Begun(split, "atomic") /\ split'.cut = FALSE
  BY <1>7 DEF Fed
<1>9. split'.begun = "no"
  BY <1>8, Runes, NotBegun
<1>10. CodeState' /\ WordsSeen' /\ WordsOnly'
  BY <1>3, <1>8, <1>9 DEF CodeState, WordsSeen, WordsOnly, Named, NoWord
<1>11. inside' = <<"body">>
  BY <1>1
<1>12. Len(inside') = 1 /\ inside'[1] = "body" /\ inside' \in Seq(Constructs)
  BY <1>11 DEF Constructs, CodeParts
<1>13. Top' = "body"
  BY <1>11, <1>12 DEF Top, Last
<1>14. Structure' /\ InCode'
  BY <1>12, <1>13 DEF Structure, InCode
<1>15. Nested'
  <2>1. Has("body")' /\ ~Has("paren")'
    BY <1>12 DEF Has
  <2>2. <<"end">> \in Seq({"close", "end"}) /\ Len(<<"end">>) = 1 /\ <<"end">>[1] = "end"
    OBVIOUS
  <2> QED
    BY <1>8, <2>1, <2>2 DEF Nested
<1> QED
  BY <1>3, <1>8, <1>10, <1>14, <1>15, InCodeAgain

LEMMA EndBodyStep ==
  ASSUME CodeInv, EndBody
  PROVE  SplitInv'
<1>1. Top = "body" /\ ~NoWord /\ inside' = Front(inside) /\ Token(<<"end">>, "alone")
  BY DEF EndBody
<1>2. Structure /\ Nested /\ CodeState
  BY DEF CodeInv
<1>3. split' = Feed(split, "end") /\ glue' = "alone" /\ ends' = FALSE
  BY <1>1, <1>2, OneSymbol DEF Token
<1>4. Fits("end")
  BY <1>1 DEF Fits
<1>5. Len(inside) = 1 /\ inside[1] = "body"
  BY <1>1, <1>2, Tops DEF Structure
<1>6. Has("body") /\ ~Has("paren")
  BY <1>5 DEF Has
<1>7. split.nest = <<"end">>
  <2>1. split.nest # <<>> /\ split.nest[1] = "end" /\ split.nest \in Seq({"close", "end"})
    BY <1>2, <1>6 DEF Nested
  <2>2. Len(split.nest) \in Nat /\ Len(split.nest) # 0
    BY <2>1, LenProperties, EmptySeq
  <2>3. ~ Len(split.nest) > 1
    <3>1. SUFFICES ASSUME Len(split.nest) > 1 PROVE FALSE
      OBVIOUS
    <3>2. 2 \in 1 .. Len(split.nest)
      BY <2>2, <3>1
    <3>3. split.nest[2] \in {"close", "end"}
      BY <2>1, <3>2, ElementOfSeq
    <3> QED
      BY <1>2, <1>6, <3>2, <3>3 DEF Nested
  <2>4. <<"end">> \in Seq({"close", "end"}) /\ Len(<<"end">>) = 1 /\ <<"end">>[1] = "end"
    OBVIOUS
  <2>5. Len(split.nest) = 1
    <3>1. \A m \in Nat : m # 0 /\ ~(m > 1) => m = 1
      OBVIOUS
    <3> QED
      BY <2>2, <2>3, <3>1
  <2> QED
    BY <2>1, <2>4, <2>5, SeqEqual
<1>8. split' = Fed(split, "end", <<>>, ReadyState)
  <2>1. NextOf(split, "end") = ReadyNext("end", split.begun)
    BY <1>2, <1>4, ReadsLikeReady
  <2>2. Feed(split, "end") = Fed(split, "end", Leave(split.nest, "end"), ReadyState)
    BY <1>2, <2>1, NestFacts, PlainRune DEF Special
  <2> QED
    BY <1>3, <1>7, <2>2, LeftByEnd
<1>9. /\ DOMAIN split' = {"nest", "state", "before", "name", "begun", "cut"}
      /\ split'.nest = <<>> /\ split'.state = ReadyState
      /\ split'.begun = Begun(split, "end") /\ split'.cut = FALSE
  BY <1>8 DEF Fed
<1>10. split'.begun = "no"
  BY <1>9, Runes, NotBegun
<1>11. CodeState' /\ WordsSeen' /\ WordsOnly'
  BY <1>3, <1>9, <1>10 DEF CodeState, WordsSeen, WordsOnly, Named, NoWord
<1>12. inside' = <<>>
  BY <1>1, <1>5, SubSeqEmpty DEF Front
<1>13. Structure' /\ InCode'
  BY <1>12 DEF Structure, InCode, Top
<1>14. Nested'
  <2>1. ~Has("body")' /\ ~Has("paren")'
    BY <1>12 DEF Has
  <2> QED
    BY <1>9, <2>1 DEF Nested
<1> QED
  BY <1>3, <1>9, <1>11, <1>13, <1>14, InCodeAgain

-----------------------------------------------------------------------------
\* After a step that ends in a string, a comment or a dollar quote.
LEMMA InStringNow ==
  ASSUME Structure', Nested', Top' \in {"quote", "ident"},
         split'.state = Within(Top'), split'.cut = ends'
  PROVE  SplitInv'
<1>1. ~InCode' /\ Top' # "line" /\ Top' # "block" /\ Top' \notin DOMAIN Tags
      /\ (DOMAIN Tags)' = DOMAIN Tags
  BY DEF InCode, Tags
<1>2. Words' /\ StringState' /\ LineState' /\ DollarQuote' /\ BlockState'
  BY <1>1 DEF Words, StringState, LineState, DollarQuote, BlockState, Within, Ended
<1> QED
  BY <1>1, <1>2 DEF SplitInv, SplitsAtStatements

InLine == Waiting(<<"newline">>, <<>>)

LEMMA InLineNow ==
  ASSUME Structure', Nested', Top' = "line", split'.state = InLine, WordsSeen',
         split'.cut = ends'
  PROVE  SplitInv'
<1>1. ~InCode' /\ ~InString' /\ Top' # "block" /\ Top' \notin DOMAIN Tags
      /\ (DOMAIN Tags)' = DOMAIN Tags
  BY DEF InCode, InString, Tags
<1>2. Words' /\ StringState' /\ LineState' /\ DollarQuote' /\ BlockState'
  BY <1>1 DEF Words, StringState, LineState, DollarQuote, BlockState, InLine
<1> QED
  BY <1>1, <1>2 DEF SplitInv, SplitsAtStatements

LEMMA InBlockNow ==
  ASSUME Structure', Nested', Top' = "block", BlockState', split'.cut = ends'
  PROVE  SplitInv'
<1>1. ~InCode' /\ ~InString' /\ Top' # "line" /\ Top' \notin DOMAIN Tags
      /\ (DOMAIN Tags)' = DOMAIN Tags
  BY DEF InCode, InString, Tags
<1>2. Words' /\ StringState' /\ LineState' /\ DollarQuote'
  BY <1>1 DEF Words, StringState, LineState, DollarQuote
<1> QED
  BY <1>1, <1>2 DEF SplitInv, SplitsAtStatements

LEMMA InDollarNow ==
  ASSUME Structure', Nested', Top' \in DOMAIN Tags, DollarQuote', split'.begun = "no",
         split'.cut = ends'
  PROVE  SplitInv'
<1>1. ~InCode' /\ ~InString' /\ Top' # "line" /\ Top' # "block"
      /\ (DOMAIN Tags)' = DOMAIN Tags
  BY DEF InCode, InString, Tags
<1>2. Words' /\ StringState' /\ LineState' /\ BlockState'
  BY <1>1 DEF Words, StringState, LineState, BlockState
<1> QED
  BY <1>1, <1>2 DEF SplitInv, SplitsAtStatements

\* A rune that ends nothing.
LEMMA LeavesNothing ==
  ASSUME Structure, Nested, NEW r, r \notin {"close", "end"}
  PROVE  Leave(split.nest, r) = split.nest
<1>1. split.nest # <<>> => split.nest[Len(split.nest)] # r
  BY NestFacts
<1> QED
  BY <1>1, NestFacts, LeftAlone

-----------------------------------------------------------------------------
\* Strings.
LEMMA QuoteStates ==
  ASSUME NEW d, NEW x, x \in {Within(d), Ended(d)}
  PROVE  [x EXCEPT !.escape = TRUE] = Ended(d) /\ [x EXCEPT !.escape = FALSE] = Within(d)
<1>1. DOMAIN x = {"kind", "delimiter", "escape"} /\ x.kind = "quote" /\ x.delimiter = d
  BY DEF Within, Ended
<1>2. \A e : [x EXCEPT !.escape = e] = [kind |-> "quote", delimiter |-> d, escape |-> e]
  BY <1>1
<1> QED
  BY <1>2, Zenon DEF Within, Ended

LEMMA QuoteReads ==
  ASSUME NEW s, s.nest \in Seq({"close", "end"}), NEW d
  PROVE  /\ s.state = Within(d) =>
              /\ Feed(s, d) = Fed(s, d, s.nest, Ended(d))
              /\ \A r : r # d => Feed(s, r) = Fed(s, r, s.nest, Within(d))
         /\ s.state = Ended(d) => Feed(s, d) = Fed(s, d, s.nest, Within(d))
<1>1. /\ Within(d).kind = "quote" /\ Within(d).delimiter = d /\ Within(d).escape = FALSE
      /\ Ended(d).kind = "quote" /\ Ended(d).delimiter = d /\ Ended(d).escape = TRUE
  BY DEF Within, Ended
<1>2. ASSUME s.state = Within(d)
      PROVE  /\ NextOf(s, d) = Goes(Ended(d))
             /\ \A r : r # d => NextOf(s, r) = Goes(Within(d))
  <2>1. QuoteNext(s.state, d, s.begun) = Goes(Ended(d))
    <3>1. (~s.state.escape /\ d = s.state.delimiter) = TRUE
      BY <1>1, <1>2
    <3>2. [s.state EXCEPT !.escape = TRUE] = Ended(d)
      BY <1>2, QuoteStates
    <3>3. ~(s.state.escape /\ d # s.state.delimiter)
      BY <1>1, <1>2
    <3> QED
      BY <3>1, <3>2, <3>3 DEF QuoteNext
  <2>2. ASSUME NEW r, r # d PROVE QuoteNext(s.state, r, s.begun) = Goes(Within(d))
    <3>1. (~s.state.escape /\ r = s.state.delimiter) = FALSE
      BY <1>1, <1>2, <2>2
    <3>2. [s.state EXCEPT !.escape = FALSE] = Within(d)
      BY <1>2, QuoteStates
    <3>3. ~(s.state.escape /\ r # s.state.delimiter)
      BY <1>1, <1>2
    <3> QED
      BY <3>1, <3>2, <3>3 DEF QuoteNext
  <2> QED
    BY <1>1, <1>2, <2>1, <2>2 DEF NextOf, NextState
<1>3. ASSUME s.state = Ended(d)
      PROVE  NextOf(s, d) = Goes(Within(d))
  <2>1. QuoteNext(s.state, d, s.begun) = Goes(Within(d))
    <3>1. (~s.state.escape /\ d = s.state.delimiter) = FALSE
      BY <1>1, <1>3
    <3>2. [s.state EXCEPT !.escape = FALSE] = Within(d)
      BY <1>3, QuoteStates
    <3>3. ~(s.state.escape /\ d # s.state.delimiter)
      BY <1>1, <1>3
    <3> QED
      BY <3>1, <3>2, <3>3 DEF QuoteNext
  <2> QED
    BY <1>1, <1>3, <2>1 DEF NextOf, NextState
<1> QED
  BY <1>1, <1>2, <1>3, FeedCases

LEMMA OpenStringStep ==
  ASSUME CodeInv, OpenString
  PROVE  SplitInv'
<1>1. PICK r \in {"quote", "ident"} :
        glue # r /\ inside' = Append(inside, r) /\ Token(<<r>>, "other")
  BY DEF OpenString, Open
<1>2. Structure /\ Nested /\ CodeState /\ InCode
  BY DEF CodeInv
<1>3. split' = Feed(split, r) /\ ends' = FALSE
  BY <1>1, <1>2, OneSymbol DEF Token
<1>4. split' = Fed(split, r, split.nest, Within(r))
  <2>1. CASE glue # "semi"
    <3>1. Fits(r)
      BY <1>1, <2>1 DEF Fits, InTag, Word
    <3> QED
      BY <1>2, <1>3, <3>1, FromReady
  <2>2. CASE split.state = Ended(r)
    BY <1>2, <1>3, <2>2, NestFacts, QuoteReads
  <2>3. CASE glue = "semi" /\ split.state # Ended(r)
    <3>1. split.state = ReadyState \/ \E d : d # r /\ split.state = Ended(d)
      BY <1>2, <2>3 DEF CodeState
    <3>2. NextOf(split, r) = ReadyNext(r, split.begun)
      <4>1. CASE split.state = ReadyState
        BY <4>1 DEF NextOf, NextState, ReadyState
      <4>2. ASSUME NEW d, d # r, split.state = Ended(d)
            PROVE  NextOf(split, r) = ReadyNext(r, split.begun)
        <5>1. split.state.kind = "quote" /\ split.state.delimiter = d
              /\ split.state.escape = TRUE
          BY <4>2 DEF Within, Ended
        <5>2. QuoteNext(split.state, r, split.begun) = ReadyNext(r, split.begun)
          BY <4>2, <5>1 DEF QuoteNext
        <5> QED
          BY <5>1, <5>2 DEF NextOf, NextState
      <4> QED
        BY <3>1, <4>1, <4>2
    <3>3. ReadyNext(r, split.begun) = Goes(Within(r)) /\ Within(r).kind # "ready"
      BY DEF ReadyNext, Within, Ended
    <3> QED
      BY <1>2, <1>3, <3>2, <3>3, NestFacts, FeedCases
  <2> QED
    BY <2>1, <2>2, <2>3
<1>5. Structure' /\ Nested' /\ Top' = r
  BY <1>1, <1>2, <1>4, NestOpens
<1>6. split'.state = Within(r) /\ split'.cut = FALSE
  BY <1>4 DEF Fed
<1> QED
  BY <1>3, <1>5, <1>6, InStringNow

LEMMA StringGoesOnStep ==
  ASSUME SplitInv, StringGoesOn
  PROVE  SplitInv'
<1>1. /\ Top \in {"quote", "ident"} /\ UNCHANGED inside
      /\ \/ \E r \in Symbols \ {Top} : Token(<<r>>, "other")
         \/ Token(<<Top, Top>>, "other")
  BY DEF StringGoesOn, InString
<1>2. Structure /\ Nested /\ split.state = Within(Top)
  BY <1>1 DEF SplitInv, StringState, InString
<1>3. split.nest \in Seq({"close", "end"})
  BY <1>2, NestFacts
<1>4. \E t, r : split' = Fed(t, r, split.nest, Within(Top)) /\ ends' = FALSE
  <2>1. ASSUME NEW r \in Symbols \ {Top}, Token(<<r>>, "other")
        PROVE  split' = Fed(split, r, split.nest, Within(Top)) /\ ends' = FALSE
    <3>1. split' = Feed(split, r) /\ ends' = FALSE
      BY <1>2, <2>1, OneSymbol DEF Token
    <3>2. Feed(split, r) = Fed(split, r, split.nest, Within(Top))
      BY <1>2, <1>3, <2>1, QuoteReads
    <3> QED
      BY <3>1, <3>2
  <2>2. ASSUME Token(<<Top, Top>>, "other")
        PROVE  \E t : split' = Fed(t, Top, split.nest, Within(Top)) /\ ends' = FALSE
    <3>1. split' = Feed(Feed(split, Top), Top) /\ ends' = FALSE
      BY <1>2, <2>2, TwoSymbols DEF Token
    <3> DEFINE s == Fed(split, Top, split.nest, Ended(Top))
    <3>4. Feed(split, Top) = s
      BY <1>2, <1>3, QuoteReads
    <3>5. s.nest = split.nest /\ s.state = Ended(Top)
      BY DEF Fed
    <3> HIDE DEF s
    <3>6. Feed(s, Top) = Fed(s, Top, split.nest, Within(Top))
      BY <1>3, <3>5, QuoteReads
    <3> QED
      BY <3>1, <3>4, <3>6
  <2> QED
    BY <1>1, <2>1, <2>2
<1>5. PICK t, r : split' = Fed(t, r, split.nest, Within(Top))
  BY <1>4
<1>6. Structure' /\ Nested' /\ Top' = Top
  BY <1>1, <1>2, <1>5, NestStays
<1>7. split'.state = Within(Top) /\ split'.cut = ends'
  BY <1>4, <1>5 DEF Fed
<1> QED
  BY <1>1, <1>6, <1>7, InStringNow

LEMMA CloseStringStep ==
  ASSUME SplitInv, CloseString
  PROVE  SplitInv'
<1>1. Top \in {"quote", "ident"} /\ inside' = Front(inside) /\ Token(<<Top>>, Top)
  BY DEF CloseString, InString
<1>2. Structure /\ Nested /\ split.state = Within(Top)
  BY <1>1 DEF SplitInv, StringState, InString
<1>3. split' = Feed(split, Top) /\ glue' = Top /\ ends' = FALSE
  BY <1>1, <1>2, OneSymbol DEF Token
<1>6. split' = Fed(split, Top, split.nest, Ended(Top))
  BY <1>2, <1>3, NestFacts, QuoteReads
<1>7. ~InCode /\ Top # "block" /\ inside # <<>>
  BY <1>1, <1>2, Tops DEF InCode, Structure
<1>8. Structure' /\ Nested' /\ InCode'
  BY <1>1, <1>2, <1>6, <1>7, NestCloses
<1>9. /\ split'.state = Ended(Top) /\ split'.cut = FALSE
      /\ split'.name = IsIdentifierRune(Top) /\ split'.begun = Begun(split, Top)
  BY <1>6 DEF Fed
<1>10. ~split'.name /\ split'.begun = "no"
  BY <1>1, <1>9, Runes, NotBegun
<1>11. CodeState'
  BY <1>1, <1>3, <1>9 DEF CodeState, Within, Ended
<1>12. WordsSeen' /\ WordsOnly'
  BY <1>1, <1>3, <1>10, NoWords
<1> QED
  BY <1>3, <1>8, <1>9, <1>11, <1>12, InCodeAgain

-----------------------------------------------------------------------------
\* Comments.
LEMMA OpenLineStep ==
  ASSUME CodeInv, OpenLine
  PROVE  SplitInv'
<1>1. /\ InCode /\ glue # "dash" /\ inside' = Append(inside, "line")
      /\ Token(<<"dash", "dash">>, "other")
  BY DEF OpenLine, Open
<1>2. Structure /\ Nested /\ CodeState
  BY DEF CodeInv
<1> DEFINE s == Fed(split, "dash", split.nest, [kind |-> "comment"])
<1>3. Feed(split, "dash") = s
  <2>1. Fits("dash")
    BY <1>1 DEF Fits, InTag, Word
  <2> QED
    BY <1>2, <2>1, FromReady
<1>4. split' = Feed(s, "dash") /\ glue' = "other" /\ ends' = FALSE
  BY <1>1, <1>2, <1>3, TwoSymbols DEF Token
<1>5. s.nest = split.nest /\ s.state = [kind |-> "comment"]
  BY DEF Fed
<1> HIDE DEF s
<1>6. NextOf(s, "dash") = Goes(InLine) /\ InLine.kind # "ready"
  <2>1. Tail(<<"newline">>) = <<>>
    OBVIOUS
  <2>2. CommentNext("dash", s.begun) = Goes(InLine)
    BY <2>1 DEF CommentNext, DollarState, InLine, Waiting
  <2>3. s.state.kind = "comment" /\ InLine.kind = "dollar"
    BY <1>5 DEF InLine, Waiting
  <2> QED
    BY <2>2, <2>3 DEF NextOf, NextState
<1>7. split' = Fed(s, "dash", split.nest, InLine)
  BY <1>2, <1>4, <1>5, <1>6, FeedCases, NestFacts
<1>8. Structure' /\ Nested' /\ Top' = "line"
  BY <1>1, <1>2, <1>7, NestOpens
<1>9. /\ split'.state = InLine /\ split'.cut = FALSE /\ split'.begun = Begun(s, "dash")
  BY <1>7 DEF Fed
<1>10. WordsSeen'
  <2>1. split'.begun = "no" /\ ~Named'
    BY <1>4, <1>9, Runes, NotBegun DEF Named
  <2> QED
    BY <2>1 DEF WordsSeen
<1> QED
  BY <1>4, <1>8, <1>9, <1>10, InLineNow

\* What a rune makes of a state that waits for a tag.
LEMMA DollarReads ==
  ASSUME NEW s, s.nest \in Seq({"close", "end"}), NEW tag, NEW seen,
         s.state = Waiting(tag, seen), NEW r,
         NEW window, window = Append(seen, r)
  PROVE  /\ window = tag => Feed(s, r) = Fed(s, r, Leave(s.nest, r), ReadyState)
         /\ \A rest : window # tag /\ rest = Tail(window) =>
              Feed(s, r) = Fed(s, r, s.nest, Waiting(tag, rest))
<1>1. /\ s.state.kind = "dollar" /\ s.state.seen = seen /\ s.state.tag = tag
      /\ DOMAIN s.state = {"kind", "tag", "seen"}
  BY DEF Waiting
<1>2. \A e : [s.state EXCEPT !.seen = e] = Waiting(tag, e) /\ Waiting(tag, e).kind # "ready"
  BY <1>1 DEF Waiting
<1>3. NextOf(s, r) = DollarNext(s.state, r)
  BY <1>1 DEF NextOf, NextState
<1>4. DollarNext(s.state, r) =
        IF window = tag THEN Goes(ReadyState) ELSE Goes(Waiting(tag, Tail(window)))
  BY <1>1, <1>2 DEF DollarNext
<1>5. CASE window = tag
  BY <1>3, <1>4, <1>5, FeedCases
<1>6. ASSUME window # tag, NEW rest, rest = Tail(window)
      PROVE  Feed(s, r) = Fed(s, r, s.nest, Waiting(tag, rest))
  BY <1>2, <1>3, <1>4, <1>6, FeedCases
<1> QED
  BY <1>5, <1>6

LEMMA DollarEnds ==
  ASSUME NEW s, s.nest \in Seq({"close", "end"}), NEW tag, NEW seen,
         s.state = Waiting(tag, seen), NEW r, Append(seen, r) = tag
  PROVE  Feed(s, r) = Fed(s, r, Leave(s.nest, r), ReadyState)
BY DollarReads

LEMMA DollarStays ==
  ASSUME NEW s, s.nest \in Seq({"close", "end"}), NEW tag, NEW seen,
         s.state = Waiting(tag, seen), NEW r, Append(seen, r) # tag
  PROVE  Feed(s, r) = Fed(s, r, s.nest, Waiting(tag, Tail(Append(seen, r))))
BY DollarReads

\* In a line, BEGIN and the spaces after it are seen as in code.
LEMMA LineHas ==
  ASSUME SplitInv, Top = "line"
  PROVE  /\ Structure /\ Nested /\ WordsSeen /\ split.state = InLine
         /\ split.nest \in Seq({"close", "end"}) /\ ~InCode /\ inside # <<>>
<1>1. Structure /\ Nested /\ WordsSeen /\ split.state = InLine
  BY DEF SplitInv, Words, LineState, InLine
<1> QED
  BY <1>1, NestFacts, Tops DEF InCode, Structure

LEMMA LineGoesOnStep ==
  ASSUME SplitInv, LineGoesOn
  PROVE  SplitInv'
<1>1. PICK r \in Symbols \ {"newline"} :
        /\ Top = "line" /\ UNCHANGED inside
        /\ Token(<<r>>, CASE Word(r) -> WordGlue(r)
                          [] r = "space" -> Blank("begun")
                          [] OTHER -> "other")
  BY DEF LineGoesOn
<1>2. /\ Structure /\ Nested /\ WordsSeen /\ split.state = InLine
      /\ split.nest \in Seq({"close", "end"})
  BY <1>1, LineHas
<1>3. split' = Feed(split, r) /\ ends' = FALSE
  BY <1>1, <1>2, OneSymbol DEF Token
<1>4. split' = Fed(split, r, split.nest, InLine)
  <2>1. <<r>> = Append(<<>>, r) /\ <<>> = Tail(<<r>>) /\ <<r>> # <<"newline">>
    <3>1. <<r>>[1] = r /\ <<"newline">>[1] = "newline"
      OBVIOUS
    <3>2. <<r>> # <<"newline">>
      BY <1>1, <3>1
    <3> QED
      BY <3>2
  <2>2. Feed(split, r) = Fed(split, r, split.nest, InLine)
    BY <1>2, <2>1, DollarReads DEF InLine
  <2> QED
    BY <1>3, <2>2
<1>5. Structure' /\ Nested' /\ Top' = "line"
  BY <1>1, <1>2, <1>4, NestStays
<1>6. /\ split'.state = InLine /\ split'.cut = FALSE
      /\ split'.name = IsIdentifierRune(r) /\ split'.begun = Begun(split, r)
  BY <1>4 DEF Fed
<1>7. /\ Word(r) => glue' = WordGlue(r)
      /\ r = "space" => glue' = Blank("begun")
      /\ ~Word(r) /\ r # "space" => glue' = "other"
  BY <1>1 DEF Token, Word
<1>8. WordsSeen'
  <2>1. CASE Word(r)
    <3>1. split'.name
      BY <1>6, <2>1 DEF IsIdentifierRune, InTag
    <3>2. ~Space(r)
      BY <2>1 DEF Space, Word
    <3>3. split'.begun # "no" => r = "begin" /\ ~split.name
      BY <1>6, <3>2 DEF Begun
    <3>4. split'.begun # "no" => glue' = "begin"
      BY <1>2, <1>7, <2>1, <3>3 DEF WordsSeen, WordGlue
    <3> QED
      BY <3>1, <3>4 DEF WordsSeen, Spaced
  <2>2. CASE r = "space"
    <3>1. glue' \in {"begun", "commented", "space"}
      BY <1>7, <2>2 DEF Blank
    <3>2. split.begun # "no" => glue' \in Spaced
      BY <1>2, <1>7, <2>2 DEF WordsSeen, Blank, Spaced
    <3>3. split'.begun # "no" => split.begun # "no"
      BY <1>6, <2>2, Runes DEF Begun
    <3> QED
      BY <3>1, <3>2, <3>3 DEF WordsSeen, Named
  <2>3. CASE ~Word(r) /\ r # "space"
    <3>1. r # "begin" /\ ~Space(r)
      BY <1>1, <2>3 DEF Word, Space
    <3>2. split'.begun = "no"
      BY <1>6, <3>1, NotBegun
    <3> QED
      BY <1>7, <2>3, <3>2 DEF WordsSeen, Named
  <2> QED
    BY <2>1, <2>2, <2>3
<1> QED
  BY <1>3, <1>5, <1>6, <1>8, InLineNow

LEMMA CloseLineStep ==
  ASSUME SplitInv, CloseLine
  PROVE  SplitInv'
<1>1. /\ Top = "line" /\ inside' = Front(inside)
      /\ Token(<<"newline">>, Blank("commented"))
  BY DEF CloseLine
<1>2. /\ Structure /\ Nested /\ WordsSeen /\ split.state = InLine
      /\ split.nest \in Seq({"close", "end"}) /\ ~InCode /\ inside # <<>>
  BY <1>1, LineHas
<1>3. split' = Feed(split, "newline") /\ glue' = Blank("commented") /\ ends' = FALSE
  BY <1>1, <1>2, OneSymbol DEF Token
<1>4. split' = Fed(split, "newline", split.nest, ReadyState)
  <2> DEFINE tag == <<"newline">>
             seen == <<>>
  <2>1. tag = Append(seen, "newline") /\ InLine = Waiting(tag, seen)
    BY DEF InLine
  <2> HIDE DEF tag, seen
  <2>2. Feed(split, "newline")
          = Fed(split, "newline", Leave(split.nest, "newline"), ReadyState)
    <3>1. split.state = Waiting(tag, seen) /\ split.nest \in Seq({"close", "end"})
      BY <1>2, <2>1
    <3> QED
      BY <2>1, <3>1, DollarEnds
  <2> QED
    BY <1>2, <1>3, <2>2, LeavesNothing
<1>5. Structure' /\ Nested' /\ InCode'
  BY <1>1, <1>2, <1>4, NestCloses
<1>6. /\ split'.state = ReadyState /\ split'.cut = FALSE
      /\ split'.name = IsIdentifierRune("newline")
      /\ split'.begun = Begun(split, "newline")
  BY <1>4 DEF Fed
<1>7. ~split'.name /\ (split'.begun # "no" => split.begun # "no")
  BY <1>6, Runes DEF Begun
<1>8. glue' \in {"commented", "space"} /\ (glue \in Spaced => glue' = "commented")
  BY <1>3 DEF Blank, Spaced
<1>9. CodeState' /\ WordsSeen' /\ WordsOnly'
  BY <1>2, <1>6, <1>7, <1>8 DEF CodeState, WordsSeen, WordsOnly, Named, Spaced
<1> QED
  BY <1>3, <1>5, <1>6, <1>9, InCodeAgain

\* What a rune makes of a block comment.
LEMMA BlockReads ==
  ASSUME NEW s, s.nest \in Seq({"close", "end"}), NEW d \in Nat, s.state = Block(d), NEW r
  PROVE  /\ s.before = "slash" /\ r = "star" =>
              Feed(s, r) = Fed(s, r, s.nest, Block(d + 1))
         /\ s.before = "star" /\ r = "slash" /\ d = 1 =>
              Feed(s, r) = Fed(s, r, Leave(s.nest, r), ReadyState)
         /\ s.before = "star" /\ r = "slash" /\ d > 1 =>
              Feed(s, r) = Fed(s, r, s.nest, Block(d - 1))
         /\ d > 0 /\ (r = "star" => s.before # "slash") /\ (r = "slash" => s.before # "star") =>
              Feed(s, r) = Fed(s, r, s.nest, Block(d))
<1> DEFINE w == <<s.before, r>>
<1>1. /\ w = <<"slash", "star">> <=> s.before = "slash" /\ r = "star"
      /\ w = <<"star", "slash">> <=> s.before = "star" /\ r = "slash"
      /\ w[2] = r
  OBVIOUS
<1>2. /\ DOMAIN s.state = {"kind", "depth"} /\ s.state.kind = "block" /\ s.state.depth = d
      /\ \A e : Block(e).kind # "ready"
  BY DEF Block
<1>3. \A e : [s.state EXCEPT !.depth = e] = Block(e)
  BY <1>2 DEF Block
<1>4. NextOf(s, r) = BlockNext(s.state, w, s.begun)
  BY <1>2 DEF NextOf, NextState
<1> HIDE DEF w
<1>5. CASE s.before = "slash" /\ r = "star"
  <2>1. BlockNext(s.state, w, s.begun) = Goes(Block(d + 1))
    BY <1>1, <1>2, <1>3, <1>5 DEF BlockNext
  <2> QED
    BY <1>2, <1>4, <1>5, <2>1, FeedCases
<1>6. CASE s.before = "star" /\ r = "slash" /\ d = 1
  <2>1. BlockNext(s.state, w, s.begun) = Goes(ReadyState)
    BY <1>1, <1>2, <1>6 DEF BlockNext
  <2> QED
    BY <1>4, <1>6, <2>1, FeedCases
<1>7. CASE s.before = "star" /\ r = "slash" /\ d > 1
  <2>1. BlockNext(s.state, w, s.begun) = Goes(Block(d - 1))
    BY <1>1, <1>2, <1>3, <1>7 DEF BlockNext
  <2> QED
    BY <1>2, <1>4, <1>7, <2>1, FeedCases
<1>8. CASE d > 0 /\ (r = "star" => s.before # "slash") /\ (r = "slash" => s.before # "star")
  <2>1. BlockNext(s.state, w, s.begun) = Goes(Block(d))
    BY <1>1, <1>2, <1>8 DEF BlockNext
  <2> QED
    BY <1>2, <1>4, <1>8, <2>1, FeedCases
<1> QED
  BY <1>5, <1>6, <1>7, <1>8

LEMMA BlockHas ==
  ASSUME SplitInv, Top = "block"
  PROVE  /\ Structure /\ Nested /\ BlockState /\ split.nest \in Seq({"close", "end"})
         /\ ~InCode /\ inside # <<>> /\ Len(inside) \in Nat
         /\ \E d \in 1 .. Len(inside) :
              /\ split.state = Block(d) /\ split.state.depth = d
              /\ \A at \in 1 .. Len(inside) : inside[at] = "block" <=> at > Len(inside) - d
<1>1. Structure /\ Nested /\ BlockState
  BY DEF SplitInv
<1>2. /\ split.state = Block(split.state.depth) /\ split.state.depth \in 1 .. Len(inside)
      /\ \A at \in 1 .. Len(inside) : inside[at] = "block" <=> at > Len(inside) - split.state.depth
  BY <1>1 DEF BlockState
<1> QED
  BY <1>1, <1>2, NestFacts, Tops DEF InCode, Structure

LEMMA OpenBlockStep ==
  ASSUME SplitInv, OpenBlock
  PROVE  SplitInv'
<1> DEFINE n == Len(inside)
<1>1. /\ InCode \/ (Top = "block" /\ glue \notin {"star", "opened"})
      /\ inside' = Append(inside, "block") /\ Token(<<"slash", "star">>, "opened")
  BY DEF OpenBlock, Open
<1>2. Structure /\ Nested /\ split.nest \in Seq({"close", "end"}) /\ n \in Nat
  BY NestFacts, Tops DEF SplitInv, Structure
<1>3. split' = Feed(Feed(split, "slash"), "star") /\ glue' = "opened" /\ ends' = FALSE
  BY <1>1, <1>2, TwoSymbols DEF Token
<1>4. PICK d \in 0 .. n : /\ Feed(split, "slash") = Fed(split, "slash", split.nest, Block(d))
                          /\ \A at \in 1 .. n : inside[at] = "block" <=> at > n - d
  <2>1. CASE InCode
    <3>1. Fits("slash")
      BY DEF Fits, InTag, Word
    <3>2. Feed(split, "slash") = Fed(split, "slash", split.nest, Block(0))
      BY <2>1, <3>1, CodeHas, FromReady DEF CodeInv, Block
    <3>3. \A at \in 1 .. n : inside[at] # "block" /\ ~(at > n - 0)
      BY <1>2, <2>1, OnlyCode DEF CodeParts
    <3> QED
      BY <1>2, <3>2, <3>3
  <2>2. CASE Top = "block" /\ glue \notin {"star", "opened"}
    <3>1. PICK d \in 1 .. n : /\ split.state = Block(d) /\ split.state.depth = d
                              /\ \A at \in 1 .. n : inside[at] = "block" <=> at > n - d
      BY <2>2, BlockHas
    <3>2. split.before # "star"
      BY <2>2, BlockHas DEF BlockState
    <3>3. d \in Nat /\ d > 0 /\ d \in 0 .. n
      BY <1>2, <3>1
    <3>4. Feed(split, "slash") = Fed(split, "slash", split.nest, Block(d))
      BY <1>2, <3>1, <3>2, <3>3, BlockReads
    <3> QED
      BY <3>1, <3>3, <3>4
  <2> QED
    BY <1>1, <2>1, <2>2
<1> DEFINE s == Fed(split, "slash", split.nest, Block(d))
<1>5. s.nest = split.nest /\ s.state = Block(d) /\ s.before = "slash"
  BY DEF Fed
<1>6. split' = Feed(s, "star")
  BY <1>3, <1>4
<1> HIDE DEF s
<1>7. split' = Fed(s, "star", split.nest, Block(d + 1))
  <2>1. d \in Nat
    BY <1>2
  <2> QED
    BY <1>2, <1>5, <1>6, <2>1, BlockReads
<1>8. /\ Structure' /\ Nested' /\ Top' = "block"
      /\ Len(inside') = n + 1 /\ inside'[n + 1] = "block"
      /\ \A at \in 1 .. n : inside'[at] = inside[at]
  BY <1>1, <1>2, <1>7, NestOpens
<1>9. split'.state = Block(d + 1) /\ split'.before = "star" /\ split'.cut = FALSE
  BY <1>7 DEF Fed
<1>10. split'.state.depth = d + 1
  BY <1>9 DEF Block
<1>11. BlockState'
  <2>1. d + 1 \in 1 .. n + 1
    BY <1>2
  <2>2. ASSUME NEW at \in 1 .. n + 1
        PROVE  inside'[at] = "block" <=> at > (n + 1) - (d + 1)
    <3>1. CASE at = n + 1
      BY <1>2, <1>8, <3>1
    <3>2. CASE at \in 1 .. n
      <4>1. at > n - d <=> at > (n + 1) - (d + 1)
        BY <1>2, <3>2
      <4> QED
        BY <1>4, <1>8, <3>2, <4>1
    <3> QED
      BY <1>2, <3>1, <3>2
  <2> QED
    BY <1>3, <1>8, <1>9, <1>10, <2>1, <2>2 DEF BlockState
<1> QED
  BY <1>3, <1>8, <1>9, <1>11, InBlockNow

LEMMA BlockGoesOnStep ==
  ASSUME SplitInv, BlockGoesOn
  PROVE  SplitInv'
<1>1. PICK r \in Symbols :
        /\ Top = "block" /\ UNCHANGED inside
        /\ r = "star" => glue \notin {"slash", "closed"}
        /\ r = "slash" => glue \notin {"star", "opened"}
        /\ Token(<<r>>, IF r \in {"star", "slash"} THEN r ELSE "other")
  BY DEF BlockGoesOn
<1>2. /\ Structure /\ Nested /\ BlockState /\ split.nest \in Seq({"close", "end"})
      /\ Len(inside) \in Nat
  BY <1>1, BlockHas
<1>3. PICK d \in 1 .. Len(inside) : split.state = Block(d) /\ split.state.depth = d
  BY <1>1, BlockHas
<1>4. /\ split' = Feed(split, r) /\ ends' = FALSE
      /\ glue' = IF r \in {"star", "slash"} THEN r ELSE "other"
  BY <1>1, <1>2, OneSymbol DEF Token
<1>5. split' = Fed(split, r, split.nest, Block(d))
  <2>1. (r = "star" => split.before # "slash") /\ (r = "slash" => split.before # "star")
    BY <1>1, <1>2 DEF BlockState
  <2>2. d \in Nat /\ d > 0
    BY <1>2
  <2> QED
    BY <1>2, <1>3, <1>4, <2>1, <2>2, BlockReads
<1>6. Structure' /\ Nested' /\ Top' = Top
  BY <1>1, <1>2, <1>5, NestStays
<1>7. split'.state = split.state /\ split'.before = r /\ split'.cut = FALSE
  BY <1>3, <1>5 DEF Fed
<1>8. BlockState'
  BY <1>1, <1>2, <1>4, <1>6, <1>7 DEF BlockState
<1> QED
  BY <1>1, <1>4, <1>6, <1>7, <1>8, InBlockNow

LEMMA CloseBlockStep ==
  ASSUME SplitInv, CloseBlock
  PROVE  SplitInv'
<1> DEFINE n == Len(inside)
<1>1. /\ Top = "block" /\ glue \notin {"slash", "closed"}
      /\ inside' = Front(inside) /\ Token(<<"star", "slash">>, "closed")
  BY DEF CloseBlock
<1>2. /\ Structure /\ Nested /\ BlockState /\ split.nest \in Seq({"close", "end"})
      /\ ~InCode /\ inside # <<>> /\ n \in Nat
  BY <1>1, BlockHas
<1>3. PICK d \in 1 .. n :
        /\ split.state = Block(d) /\ split.state.depth = d
        /\ \A at \in 1 .. n : inside[at] = "block" <=> at > n - d
  BY <1>1, BlockHas
<1>4. split' = Feed(Feed(split, "star"), "slash") /\ glue' = "closed" /\ ends' = FALSE
  BY <1>1, <1>2, TwoSymbols DEF Token
<1> DEFINE s == Fed(split, "star", split.nest, Block(d))
<1>5. d \in Nat /\ d > 0
  BY <1>2
<1>6. Feed(split, "star") = s
  <2>1. split.before # "slash"
    BY <1>1, <1>2 DEF BlockState
  <2> QED
    BY <1>2, <1>3, <1>5, <2>1, BlockReads
<1>7. s.nest = split.nest /\ s.state = Block(d) /\ s.before = "star"
  BY DEF Fed
<1> HIDE DEF s
<1>8. CASE d = 1
  <2>1. split' = Fed(s, "slash", split.nest, ReadyState)
    <3>1. Feed(s, "slash") = Fed(s, "slash", Leave(s.nest, "slash"), ReadyState)
      BY <1>2, <1>5, <1>7, <1>8, BlockReads
    <3> QED
      BY <1>2, <1>4, <1>6, <1>7, <3>1, LeavesNothing
  <2>2. \A at \in 1 .. n - 1 : inside[at] # "block"
    <3>1. \A at \in 1 .. n - 1 : at \in 1 .. n /\ ~(at > n - 1)
      BY <1>2
    <3> QED
      BY <1>3, <1>8, <3>1
  <2>3. n > 1 => n - 1 \in 1 .. n - 1
    BY <1>2
  <2>4. Structure' /\ Nested' /\ InCode'
    BY <1>1, <1>2, <2>1, <2>2, <2>3, NestCloses
  <2>5. /\ split'.state = ReadyState /\ split'.cut = FALSE
        /\ split'.name = IsIdentifierRune("slash") /\ split'.begun = Begun(s, "slash")
    BY <2>1 DEF Fed
  <2>6. ~split'.name /\ split'.begun = "no"
    BY <2>5, Runes, NotBegun
  <2>7. CodeState' /\ WordsSeen' /\ WordsOnly'
    BY <1>4, <2>5, <2>6, NoWords DEF CodeState
  <2> QED
    BY <1>4, <2>4, <2>5, <2>7, InCodeAgain
<1>9. CASE d > 1
  <2>1. split' = Fed(s, "slash", split.nest, Block(d - 1))
    BY <1>2, <1>4, <1>5, <1>6, <1>7, <1>9, BlockReads
  <2>2. n > 1 /\ n - 1 \in 1 .. n /\ n - 1 > n - d /\ d - 1 \in 1 .. n - 1
    BY <1>2, <1>9
  <2>3. inside[n - 1] = "block"
    BY <1>3, <2>2
  <2>4. /\ Structure' /\ Nested' /\ Top' = "block" /\ Len(inside') = n - 1
        /\ \A at \in 1 .. n - 1 : inside'[at] = inside[at]
    BY <1>1, <1>2, <2>1, <2>2, <2>3, NestCloses
  <2>5. split'.state = Block(d - 1) /\ split'.before = "slash" /\ split'.cut = FALSE
    BY <2>1 DEF Fed
  <2>6. split'.state.depth = d - 1
    BY <2>5 DEF Block
  <2>7. ASSUME NEW at \in 1 .. n - 1
        PROVE  inside'[at] = "block" <=> at > (n - 1) - (d - 1)
    <3>1. at \in 1 .. n /\ (at > n - d <=> at > (n - 1) - (d - 1))
      BY <1>2
    <3> QED
      BY <1>3, <2>4, <3>1
  <2>8. BlockState'
    BY <1>4, <2>2, <2>4, <2>5, <2>6, <2>7 DEF BlockState
  <2> QED
    BY <1>4, <2>4, <2>5, <2>8, InBlockNow
<1> QED
  BY <1>5, <1>8, <1>9

-----------------------------------------------------------------------------
\* Dollar quotes.
LEMMA TagLetters ==
  /\ DOMAIN Tags = {"empty", "a"}
  /\ Tags["empty"] = <<"dollar", "dollar">> /\ Tags["a"] = <<"dollar", "letter", "dollar">>
BY DEF Tags

InTheTag(tag) == [kind |-> "tag", tag |-> tag]

\* What a rune makes of a tag.
LEMMA TagReads ==
  ASSUME NEW s, s.nest \in Seq({"close", "end"}), NEW tag, s.state = InTheTag(tag),
         NEW r, NEW longer, longer = Append(tag, r)
  PROVE  /\ r = "letter" => Feed(s, r) = Fed(s, r, s.nest, InTheTag(longer))
         /\ r = "dollar" => Feed(s, r) = Fed(s, r, s.nest, Waiting(longer, Tail(longer)))
<1>1. /\ s.state.kind = "tag" /\ s.state.tag = tag /\ DOMAIN s.state = {"kind", "tag"}
      /\ \A e, f : InTheTag(e).kind # "ready" /\ Waiting(e, f).kind # "ready"
  BY DEF InTheTag, Waiting
<1>2. \A e : [s.state EXCEPT !.tag = e] = InTheTag(e)
  BY <1>1 DEF InTheTag
<1>3. NextOf(s, r) = TagNext(s.state, r, s.begun)
  BY <1>1 DEF NextOf, NextState
<1>4. r = "letter" => TagNext(s.state, r, s.begun) = Goes(InTheTag(longer))
  BY <1>1, <1>2 DEF TagNext, InTag, Word
<1>5. r = "dollar" => TagNext(s.state, r, s.begun) = Goes(Waiting(longer, Tail(longer)))
  BY <1>1 DEF TagNext, InTag, Word, DollarState, Waiting
<1> QED
  BY <1>1, <1>3, <1>4, <1>5, FeedCases

LEMMA OpenDollarStep ==
  ASSUME CodeInv, OpenDollar
  PROVE  SplitInv'
<1>1. PICK c \in DOMAIN Tags :
        ~NoWord /\ inside' = Append(inside, c) /\ Token(Tags[c], "other")
  BY DEF OpenDollar, Open
<1>2. /\ Structure /\ Nested /\ CodeState /\ InCode
      /\ split.nest \in Seq({"close", "end"}) /\ c \in {"empty", "a"}
  BY NestFacts, TagLetters DEF CodeInv
<1>3. ScanToken(Tags[c]) /\ ends' = FALSE /\ content' = <<>>
  BY <1>1 DEF Token
<1> DEFINE s == Fed(split, "dollar", split.nest, InTheTag(<<"dollar">>))
<1>4. Feed(split, "dollar") = s
  <2>1. Fits("dollar")
    BY <1>1 DEF Fits
  <2> QED
    BY <1>2, <2>1, FromReady DEF InTheTag
<1>5. s.nest = split.nest /\ s.state = InTheTag(<<"dollar">>)
  BY DEF Fed
<1> HIDE DEF s
<1>6. \E t : split' = Fed(t, "dollar", split.nest, Waiting(Tags[c], Tail(Tags[c])))
  <2>1. CASE c = "empty"
    <3>1. split' = Feed(s, "dollar")
      BY <1>2, <1>3, <1>4, <2>1, TagLetters, TwoSymbols
    <3> DEFINE tag == Tags[c]
    <3>2. tag = Append(<<"dollar">>, "dollar")
      <4>1. <<"dollar", "dollar">> = Append(<<"dollar">>, "dollar")
        OBVIOUS
      <4> QED
        BY <2>1, <4>1, TagLetters
    <3> HIDE DEF tag
    <3>3. split' = Fed(s, "dollar", split.nest, Waiting(tag, Tail(tag)))
      BY <1>2, <1>5, <3>1, <3>2, TagReads
    <3> QED
      BY <3>3 DEF tag
  <2>2. CASE c = "a"
    <3> DEFINE half == <<"dollar", "letter">>
               t == Fed(s, "letter", split.nest, InTheTag(half))
    <3>1. split' = Feed(Feed(s, "letter"), "dollar")
      BY <1>2, <1>3, <1>4, <2>2, TagLetters, ThreeSymbols
    <3> DEFINE tag == Tags[c]
    <3>2. half = Append(<<"dollar">>, "letter") /\ tag = Append(half, "dollar")
      <4>1. <<"dollar", "letter", "dollar">> = Append(<<"dollar", "letter">>, "dollar")
        OBVIOUS
      <4> QED
        BY <2>2, <4>1, TagLetters
    <3>3. Feed(s, "letter") = t
      BY <1>2, <1>5, <3>2, TagReads
    <3> HIDE DEF tag
    <3>4. t.nest = split.nest /\ t.state = InTheTag(half)
      BY DEF Fed
    <3> HIDE DEF t, half
    <3>5. split' = Fed(t, "dollar", split.nest, Waiting(tag, Tail(tag)))
      <4>1. Feed(t, "dollar") = Fed(t, "dollar", t.nest, Waiting(tag, Tail(tag)))
        <5>1. t.nest \in Seq({"close", "end"})
          BY <1>2, <3>4
        <5> QED
          BY <3>2, <3>4, <5>1, TagReads
      <4> QED
        BY <3>1, <3>3, <3>4, <4>1
    <3> QED
      BY <3>5 DEF tag
  <2> QED
    BY <1>2, <2>1, <2>2
<1>7. PICK t : split' = Fed(t, "dollar", split.nest, Waiting(Tags[c], Tail(Tags[c])))
  BY <1>6
<1>8. Structure' /\ Nested' /\ Top' = c
  BY <1>1, <1>2, <1>7, NestOpens
<1>9. /\ split'.state = Waiting(Tags[c], Tail(Tags[c])) /\ split'.cut = FALSE
      /\ split'.begun = Begun(t, "dollar")
  BY <1>7 DEF Fed
<1>10. split'.begun = "no"
  BY <1>9, Runes, NotBegun
<1>11. Window' = Tail(Tags[c])
  <2>1. WindowOf(c, <<>>) = Tail(Tags[c])
    <3>1. Len(<<>>) = 0
      OBVIOUS
    <3> QED
      BY <3>1 DEF WindowOf
  <2> QED
    BY <1>3, <1>8, <2>1 DEF Window
<1>12. DollarQuote'
  BY <1>3, <1>8, <1>9, <1>11 DEF DollarQuote, Tags
<1> QED
  BY <1>1, <1>3, <1>8, <1>9, <1>10, <1>12, InDollarNow

\* Whether a short sequence ends with a tag.
LEMMA EndsWith ==
  ASSUME NEW x, NEW y, NEW r
  PROVE  /\ ~IsSuffix(Tags["empty"], <<r>>)
         /\ IsSuffix(Tags["empty"], <<x, r>>) <=> x = "dollar" /\ r = "dollar"
         /\ IsSuffix(Tags["empty"], <<x, y, r>>) <=> y = "dollar" /\ r = "dollar"
         /\ ~IsSuffix(Tags["a"], <<r>>)
         /\ ~IsSuffix(Tags["a"], <<x, r>>)
         /\ IsSuffix(Tags["a"], <<x, y, r>>) <=> x = "dollar" /\ y = "letter" /\ r = "dollar"
<1> DEFINE d == "dollar"
           l == "letter"
<1>0. Tags["empty"] = <<d, d>> /\ Tags["a"] = <<d, l, d>>
  BY TagLetters
<1> HIDE DEF d, l
<1>1. /\ \A u : Reverse(<<u>>) = <<u>>
      /\ \A u, v : Reverse(<<u, v>>) = <<v, u>>
      /\ \A u, v, w : Reverse(<<u, v, w>>) = <<w, v, u>>
  BY DEF Reverse
<1>2. \A u, v : SubSeq(<<u, v>>, 1, 2) = <<u, v>>
  <2> TAKE u, v
  <2>1. <<u, v>> \in Seq({u, v}) /\ Len(<<u, v>>) = 2
    OBVIOUS
  <2> QED
    BY <2>1, SubSeqFull
<1>3. \A u, v, w : /\ SubSeq(<<u, v, w>>, 1, 2) = <<u, v>>
                   /\ SubSeq(<<u, v, w>>, 1, 3) = <<u, v, w>>
  <2> TAKE u, v, w
  <2> DEFINE S == {u, v, w}
             t == <<u, v, w>>
             sub == SubSeq(t, 1, 2)
  <2>1. t \in Seq(S) /\ Len(t) = 3 /\ t[1] = u /\ t[2] = v
    OBVIOUS
  <2>2. SubSeq(t, 1, 3) = t
    BY <2>1, SubSeqFull
  <2>3. \A at \in 1 .. 2 : t[at] \in S
    OBVIOUS
  <2>4. /\ sub \in Seq(S) /\ Len(sub) = IF 1 <= 2 THEN 2 - 1 + 1 ELSE 0
        /\ \A at \in 1 .. 2 - 1 + 1 : sub[at] = t[1 + at - 1]
    <3> HIDE DEF t, S
    <3> QED
      BY <2>3, SubSeqProperties
  <2> HIDE DEF sub
  <2>5. Len(sub) = 2 /\ sub[1] = u /\ sub[2] = v
    BY <2>1, <2>4
  <2>6. <<u, v>> \in Seq(S) /\ Len(<<u, v>>) = 2 /\ <<u, v>>[1] = u /\ <<u, v>>[2] = v
    OBVIOUS
  <2> DEFINE pair == <<u, v>>
  <2>7. sub = pair
    <3>1. pair \in Seq(S) /\ Len(pair) = 2 /\ pair[1] = u /\ pair[2] = v
      BY <2>6
    <3> HIDE DEF pair, S
    <3>2. \A at \in 1 .. 2 : sub[at] = pair[at]
      BY <2>5, <3>1
    <3> QED
      BY <2>4, <2>5, <3>1, <3>2, SeqEqual
  <2> QED
    BY <2>2, <2>7 DEF sub
<1>4. \A s : IsSuffix(<<d, l, d>>, s) <=>
               3 <= Len(Reverse(s)) /\ SubSeq(<<d, l, d>>, 1, 3) = SubSeq(Reverse(s), 1, 3)
  <2>1. Len(<<d, l, d>>) = 3
    OBVIOUS
  <2> QED
    BY <1>1, <2>1 DEF IsSuffix, IsPrefix
<1>5. ~IsSuffix(<<d, d>>, <<r>>) /\ ~IsSuffix(<<d, l, d>>, <<r>>)
  <2>1. Len(<<d, d>>) = 2 /\ Len(<<r>>) = 1
    OBVIOUS
  <2>2. ~IsSuffix(<<d, d>>, <<r>>)
    BY <1>1, <2>1 DEF IsSuffix, IsPrefix
  <2> QED
    BY <1>1, <1>4, <2>1, <2>2
<1>6. IsSuffix(<<d, d>>, <<x, r>>) <=> d = x /\ d = r
  <2>1. IsSuffix(<<d, d>>, <<x, r>>) <=> SubSeq(<<d, d>>, 1, 2) = SubSeq(<<r, x>>, 1, 2)
    BY <1>1 DEF IsSuffix, IsPrefix
  <2>2. <<d, d>> = <<r, x>> <=> d = x /\ d = r
    OBVIOUS
  <2> QED
    BY <1>2, <2>1, <2>2
<1>7. IsSuffix(<<d, d>>, <<x, y, r>>) <=> d = y /\ d = r
  <2>1. IsSuffix(<<d, d>>, <<x, y, r>>)
          <=> SubSeq(<<d, d>>, 1, 2) = SubSeq(<<r, y, x>>, 1, 2)
    <3> DEFINE s == <<x, y, r>>
    <3>1. Len(<<d, d>>) = 2 /\ Len(<<r, y, x>>) = 3 /\ 2 <= 3
      OBVIOUS
    <3>2. Reverse(s) = <<r, y, x>> /\ Reverse(<<d, d>>) = <<d, d>>
      BY <1>1
    <3> HIDE DEF s
    <3>3. IsSuffix(<<d, d>>, s) <=> SubSeq(<<d, d>>, 1, 2) = SubSeq(Reverse(s), 1, 2)
      BY <3>1, <3>2 DEF IsSuffix, IsPrefix
    <3> QED
      BY <3>2, <3>3 DEF s
  <2>2. <<d, d>> = <<r, y>> <=> d = y /\ d = r
    OBVIOUS
  <2> QED
    BY <1>2, <1>3, <2>1, <2>2
<1>8. ~IsSuffix(<<d, l, d>>, <<x, r>>)
  <2>1. Len(<<r, x>>) = 2
    OBVIOUS
  <2> QED
    BY <1>1, <1>4, <2>1
<1>9. IsSuffix(<<d, l, d>>, <<x, y, r>>) <=> d = x /\ l = y /\ d = r
  <2>1. IsSuffix(<<d, l, d>>, <<x, y, r>>)
          <=> SubSeq(<<d, l, d>>, 1, 3) = SubSeq(<<r, y, x>>, 1, 3)
    <3> DEFINE s == <<x, y, r>>
    <3>1. Len(<<r, y, x>>) = 3 /\ 3 <= 3
      OBVIOUS
    <3>2. Reverse(s) = <<r, y, x>>
      BY <1>1
    <3> HIDE DEF s
    <3>3. IsSuffix(<<d, l, d>>, s) <=> SubSeq(<<d, l, d>>, 1, 3) = SubSeq(Reverse(s), 1, 3)
      BY <1>4, <3>1, <3>2
    <3> QED
      BY <3>2, <3>3 DEF s
  <2>2. <<d, l, d>> = <<r, y, x>> <=> d = x /\ l = y /\ d = r
    OBVIOUS
  <2> QED
    BY <1>3, <2>1, <2>2
<1> QED
  BY <1>0, <1>5, <1>6, <1>7, <1>8, <1>9 DEF d, l

LEMMA Windows ==
  /\ WindowOf("empty", <<>>) = <<"dollar">> /\ WindowOf("a", <<>>) = <<"letter", "dollar">>
  /\ \A x : WindowOf("empty", <<x>>) = <<x>> /\ WindowOf("a", <<x>>) = <<"dollar", x>>
  /\ \A x, y : WindowOf("empty", <<x, y>>) = <<y>> /\ WindowOf("a", <<x, y>>) = <<x, y>>
<1>1. \A x, y : /\ Len(<<>>) = 0 /\ Len(<<x>>) = 1 /\ Len(<<x, y>>) = 2
                /\ <<x>> # <<>> /\ <<x, y>> # <<>>
                /\ <<x>>[1] = x /\ <<x, y>>[2] = y
  OBVIOUS
<1>2. Tail(Tags["empty"]) = <<"dollar">> /\ Tail(Tags["a"]) = <<"letter", "dollar">>
  <2>1. Tail(<<"dollar", "dollar">>) = <<"dollar">>
        /\ Tail(<<"dollar", "letter", "dollar">>) = <<"letter", "dollar">>
    OBVIOUS
  <2> QED
    BY <2>1, TagLetters
<1>3. \A c : WindowOf(c, <<>>) = Tail(Tags[c])
  BY <1>1 DEF WindowOf
<1>4. ASSUME NEW x
      PROVE  WindowOf("empty", <<x>>) = <<x>> /\ WindowOf("a", <<x>>) = <<"dollar", x>>
  BY <1>1 DEF WindowOf
<1>5. ASSUME NEW x, NEW y
      PROVE  WindowOf("empty", <<x, y>>) = <<y>> /\ WindowOf("a", <<x, y>>) = <<x, y>>
  BY <1>1 DEF WindowOf
<1> QED
  BY <1>2, <1>3, <1>4, <1>5

Kept(now) == IF Len(now) > 2 THEN Tail(now) ELSE now

LEMMA Tuples ==
  ASSUME NEW x, NEW y, NEW r
  PROVE  Append(<<x>>, r) = <<x, r>> /\ Append(<<x, y>>, r) = <<x, y, r>>
<1> DEFINE S == {x, y, r}
           two == <<x, r>>
           three == <<x, y, r>>
<1>1. Append(<<x>>, r) = two /\ Append(<<x, y>>, r) = three
  <2> DEFINE f == Append(<<x>>, r)
             g == Append(<<x, y>>, r)
  <2>1. /\ <<x>> \in Seq(S) /\ <<x, y>> \in Seq(S) /\ r \in S
        /\ Len(<<x>>) = 1 /\ Len(<<x, y>>) = 2
        /\ two \in Seq(S) /\ Len(two) = 2 /\ two[1] = x /\ two[2] = r
        /\ three \in Seq(S) /\ Len(three) = 3 /\ three[1] = x /\ three[2] = y /\ three[3] = r
    OBVIOUS
  <2>2. f \in Seq(S) /\ Len(f) = 2 /\ f[1] = x /\ f[2] = r
    BY <2>1, AppendProperties
  <2>3. g \in Seq(S) /\ Len(g) = 3 /\ g[1] = x /\ g[2] = y /\ g[3] = r
    BY <2>1, AppendProperties
  <2> HIDE DEF f, g, two, three, S
  <2>4. f = two
    BY <2>1, <2>2, SeqEqual
  <2>5. g = three
    BY <2>1, <2>3, SeqEqual
  <2> QED
    BY <2>4, <2>5 DEF f, g
<1> QED
  BY <1>1

LEMMA OneMore == \A x, r : Append(<<x>>, r) = <<x, r>>
BY Tuples

LEMMA TwoMore == \A x, y, r : Append(<<x, y>>, r) = <<x, y, r>>
BY Tuples

LEMMA KeepsShort == \A x, r : Kept(<<r>>) = <<r>> /\ Kept(<<x, r>>) = <<x, r>>
<1>1. \A x, r : Len(<<r>>) = 1 /\ Len(<<x, r>>) = 2
  OBVIOUS
<1> QED
  BY <1>1 DEF Kept

LEMMA KeepsTwo == \A x, y, r : Kept(<<x, y, r>>) = <<y, r>>
<1> TAKE x, y, r
<1> DEFINE now == <<x, y, r>>
<1>1. Len(now) = 3
  OBVIOUS
<1>2. Tail(now) = <<y, r>>
  OBVIOUS
<1> HIDE DEF now
<1>3. Kept(now) = <<y, r>>
  BY <1>1, <1>2 DEF Kept
<1> QED
  BY <1>3 DEF now

\* The splitter finds the tag where the text ends with it, but for an occurrence
\* that overlaps the opening one; if not, the window follows the text.
Found(c, now, window) == IsSuffix(Tags[c], now) <=> window = Tags[c]
Follows(c, now, window) ==
  window # Tags[c] =>
    /\ WindowOf(c, Kept(now)) = Tail(window)
    /\ (\E x : Kept(now) = <<x>>) \/ (\E x, y : Kept(now) = <<x, y>>)

LEMMA EmptyTagWindow ==
  ASSUME NEW x, NEW y, NEW r
  PROVE  /\ r # "dollar" => /\ Found("empty", <<r>>, <<"dollar", r>>)
                            /\ Follows("empty", <<r>>, <<"dollar", r>>)
         /\ Found("empty", <<x, r>>, <<x, r>>) /\ Follows("empty", <<x, r>>, <<x, r>>)
         /\ Found("empty", <<x, y, r>>, <<y, r>>) /\ Follows("empty", <<x, y, r>>, <<y, r>>)
<1>1. \A u, v : <<u, v>> = Tags["empty"] <=> u = "dollar" /\ v = "dollar"
  BY TagLetters
<1>2. /\ r # "dollar" => Found("empty", <<r>>, <<"dollar", r>>)
      /\ Found("empty", <<x, r>>, <<x, r>>) /\ Found("empty", <<x, y, r>>, <<y, r>>)
  BY <1>1, EndsWith DEF Found
<1>3. Follows("empty", <<r>>, <<"dollar", r>>)
  <2>1. Kept(<<r>>) = <<r>>
    BY KeepsShort
  <2>2. Tail(<<"dollar", r>>) = <<r>>
    OBVIOUS
  <2>3. WindowOf("empty", <<r>>) = <<r>>
    BY Windows
  <2> QED
    BY <2>1, <2>2, <2>3 DEF Follows
<1>4. Follows("empty", <<x, r>>, <<x, r>>)
  <2>1. Kept(<<x, r>>) = <<x, r>>
    BY KeepsShort
  <2>2. Tail(<<x, r>>) = <<r>>
    OBVIOUS
  <2>3. WindowOf("empty", <<x, r>>) = <<r>>
    BY Windows
  <2> QED
    BY <2>1, <2>2, <2>3 DEF Follows
<1>5. Follows("empty", <<x, y, r>>, <<y, r>>)
  <2>1. Kept(<<x, y, r>>) = <<y, r>>
    BY KeepsTwo
  <2>2. Tail(<<y, r>>) = <<r>>
    OBVIOUS
  <2>3. WindowOf("empty", <<y, r>>) = <<r>>
    BY Windows
  <2> QED
    BY <2>1, <2>2, <2>3 DEF Follows
<1> QED
  BY <1>2, <1>3, <1>4, <1>5

LEMMA LetterTagWindow ==
  ASSUME NEW x, NEW y, NEW r
  PROVE  /\ Found("a", <<r>>, <<"letter", "dollar", r>>)
         /\ Follows("a", <<r>>, <<"letter", "dollar", r>>)
         /\ (r = "dollar" => x # "letter") => Found("a", <<x, r>>, <<"dollar", x, r>>)
         /\ Follows("a", <<x, r>>, <<"dollar", x, r>>)
         /\ Found("a", <<x, y, r>>, <<x, y, r>>) /\ Follows("a", <<x, y, r>>, <<x, y, r>>)
<1>1. \A u, v, w : <<u, v, w>> = Tags["a"] <=> u = "dollar" /\ v = "letter" /\ w = "dollar"
  BY TagLetters
<1>2. /\ Found("a", <<r>>, <<"letter", "dollar", r>>)
      /\ (r = "dollar" => x # "letter") => Found("a", <<x, r>>, <<"dollar", x, r>>)
      /\ Found("a", <<x, y, r>>, <<x, y, r>>)
  BY <1>1, EndsWith DEF Found
<1>3. Follows("a", <<r>>, <<"letter", "dollar", r>>)
  <2>1. Kept(<<r>>) = <<r>>
    BY KeepsShort
  <2>2. Tail(<<"letter", "dollar", r>>) = <<"dollar", r>>
    OBVIOUS
  <2>3. WindowOf("a", <<r>>) = <<"dollar", r>>
    BY Windows
  <2> QED
    BY <2>1, <2>2, <2>3 DEF Follows
<1>4. Follows("a", <<x, r>>, <<"dollar", x, r>>)
  <2>1. Kept(<<x, r>>) = <<x, r>>
    BY KeepsShort
  <2>2. Tail(<<"dollar", x, r>>) = <<x, r>>
    OBVIOUS
  <2>3. WindowOf("a", <<x, r>>) = <<x, r>>
    BY Windows
  <2> QED
    BY <2>1, <2>2, <2>3 DEF Follows
<1>5. Follows("a", <<x, y, r>>, <<x, y, r>>)
  <2>1. Kept(<<x, y, r>>) = <<y, r>>
    BY KeepsTwo
  <2>2. Tail(<<x, y, r>>) = <<y, r>>
    OBVIOUS
  <2>3. WindowOf("a", <<y, r>>) = <<y, r>>
    BY Windows
  <2> QED
    BY <2>1, <2>2, <2>3 DEF Follows
<1> QED
  BY <1>2, <1>3, <1>4, <1>5

\* The splitter and the text in a dollar quote.
LEMMA WindowMoves ==
  ASSUME DollarQuote, NEW c \in {"empty", "a"}, Top = c, NEW r,
         r = "dollar" => content # SubSeq(Tags[c], 2, Len(Tags[c]) - 1)
  PROVE  /\ Found(c, Append(content, r), Append(Window, r))
         /\ Follows(c, Append(content, r), Append(Window, r))
<1>1. \/ content = <<>> \/ (\E x : content = <<x>>) \/ (\E x, y : content = <<x, y>>)
  BY TagLetters DEF DollarQuote
<1>2. CASE c = "empty" /\ content = <<>>
  <2>1. r # "dollar"
    <3>1. Tags[c] = <<"dollar", "dollar">> /\ Len(<<"dollar", "dollar">>) = 2
      BY <1>2, TagLetters
    <3>2. SubSeq(Tags[c], 2, Len(Tags[c]) - 1) = <<>>
      BY <3>1, SubSeqEmpty
    <3> QED
      BY <1>2, <3>2
  <2>2. Append(content, r) = <<r>> /\ Append(Window, r) = <<"dollar", r>>
    <3>1. Window = <<"dollar">>
      BY <1>2, Windows DEF Window
    <3>2. Append(<<"dollar">>, r) = <<"dollar", r>> /\ Append(<<>>, r) = <<r>>
      BY OneMore, TwoMore
    <3> QED
      BY <1>2, <3>1, <3>2
  <2> QED
    BY <1>2, <2>1, <2>2, EmptyTagWindow
<1>3. CASE c = "a" /\ content = <<>>
  <2>1. Append(content, r) = <<r>> /\ Append(Window, r) = <<"letter", "dollar", r>>
    <3>1. Window = <<"letter", "dollar">>
      BY <1>3, Windows DEF Window
    <3>2. Append(<<"letter", "dollar">>, r) = <<"letter", "dollar", r>>
          /\ Append(<<>>, r) = <<r>>
      BY OneMore, TwoMore
    <3> QED
      BY <1>3, <3>1, <3>2
  <2> QED
    BY <1>3, <2>1, LetterTagWindow
<1>4. ASSUME NEW x, c = "empty", content = <<x>>
      PROVE  /\ Found(c, Append(content, r), Append(Window, r))
             /\ Follows(c, Append(content, r), Append(Window, r))
  <2>1. Append(content, r) = <<x, r>> /\ Append(Window, r) = <<x, r>>
    <3>1. Window = <<x>>
      BY <1>4, Windows DEF Window
    <3>2. Append(<<x>>, r) = <<x, r>>
      BY OneMore, TwoMore
    <3> QED
      BY <1>4, <3>1, <3>2
  <2> QED
    BY <1>4, <2>1, EmptyTagWindow
<1>5. ASSUME NEW x, c = "a", content = <<x>>
      PROVE  /\ Found(c, Append(content, r), Append(Window, r))
             /\ Follows(c, Append(content, r), Append(Window, r))
  <2>1. Append(content, r) = <<x, r>> /\ Append(Window, r) = <<"dollar", x, r>>
    <3>1. Window = <<"dollar", x>>
      BY <1>5, Windows DEF Window
    <3>2. Append(<<x>>, r) = <<x, r>> /\ Append(<<"dollar", x>>, r) = <<"dollar", x, r>>
      BY OneMore, TwoMore
    <3> QED
      BY <1>5, <3>1, <3>2
  <2>2. r = "dollar" => x # "letter"
    <3> DEFINE tag == <<"dollar", "letter", "dollar">>
               S == {"dollar", "letter"}
    <3>1. tag \in Seq(S) /\ Len(tag) = 3 /\ tag[2] = "letter" /\ "letter" \in S
          /\ Tags[c] = tag
      BY <1>5, TagLetters
    <3>2. SubSeq(tag, 2, 2) = <<"letter">>
      <4> DEFINE sub == SubSeq(tag, 2, 2)
                 one == <<"letter">>
      <4> HIDE DEF tag
      <4>1. \A at \in 2 .. 2 : tag[at] \in S
        BY <3>1
      <4>2. sub \in Seq(S) /\ Len(sub) = 1 /\ sub[1] = "letter"
        <5> HIDE DEF S
        <5>1. /\ sub \in Seq(S) /\ Len(sub) = IF 2 <= 2 THEN 2 - 2 + 1 ELSE 0
              /\ \A at \in 1 .. 2 - 2 + 1 : sub[at] = tag[2 + at - 1]
          BY <4>1, SubSeqProperties
        <5> HIDE DEF sub
        <5> QED
          BY <3>1, <5>1
      <4>3. one \in Seq(S) /\ Len(one) = 1 /\ one[1] = "letter"
        OBVIOUS
      <4> HIDE DEF sub, one, S
      <4>4. sub = one
        BY <4>2, <4>3, SeqEqual
      <4> QED
        BY <4>4 DEF sub, one
    <3> HIDE DEF tag
    <3>3. SubSeq(Tags[c], 2, Len(Tags[c]) - 1) = <<"letter">>
      <4>1. Len(Tags[c]) - 1 = 2
        BY <3>1
      <4> QED
        BY <3>1, <3>2, <4>1
    <3> QED
      BY <1>5, <3>3
  <2> QED
    BY <1>5, <2>1, <2>2, LetterTagWindow
<1>6. ASSUME NEW x, NEW y, c = "empty", content = <<x, y>>
      PROVE  /\ Found(c, Append(content, r), Append(Window, r))
             /\ Follows(c, Append(content, r), Append(Window, r))
  <2>1. Append(content, r) = <<x, y, r>> /\ Append(Window, r) = <<y, r>>
    <3>1. Window = <<y>>
      BY <1>6, Windows DEF Window
    <3>2. Append(<<y>>, r) = <<y, r>> /\ Append(<<x, y>>, r) = <<x, y, r>>
      BY OneMore, TwoMore
    <3> QED
      BY <1>6, <3>1, <3>2
  <2> QED
    BY <1>6, <2>1, EmptyTagWindow
<1>7. ASSUME NEW x, NEW y, c = "a", content = <<x, y>>
      PROVE  /\ Found(c, Append(content, r), Append(Window, r))
             /\ Follows(c, Append(content, r), Append(Window, r))
  <2>1. Append(content, r) = <<x, y, r>> /\ Append(Window, r) = <<x, y, r>>
    <3>1. Window = <<x, y>>
      BY <1>7, Windows DEF Window
    <3>2. Append(<<x, y>>, r) = <<x, y, r>>
      BY OneMore, TwoMore
    <3> QED
      BY <1>7, <3>1, <3>2
  <2> QED
    BY <1>7, <2>1, LetterTagWindow
<1> QED
  BY <1>1, <1>2, <1>3, <1>4, <1>5, <1>6, <1>7

LEMMA DollarGoesOnStep ==
  ASSUME SplitInv, DollarGoesOn
  PROVE  SplitInv'
<1> DEFINE c == Top
           now(r) == Append(content, r)
<1>1. PICK r \in {"letter", "digit", "dollar", "quote", "dash", "semi", "newline"} :
        /\ Top \in DOMAIN Tags
        /\ r = "dollar" => content # SubSeq(Tags[Top], 2, Len(Tags[Top]) - 1)
        /\ ScanToken(<<r>>)
        /\ IF IsSuffix(Tags[Top], now(r))
           THEN inside' = Front(inside) /\ content' = <<>> /\ glue' = "alone"
           ELSE content' = Kept(now(r)) /\ UNCHANGED <<inside, glue>>
        /\ ends' = FALSE
  BY DEF DollarGoesOn, Kept
<1>2. /\ Structure /\ Nested /\ DollarQuote /\ split.begun = "no" /\ Top \in {"empty", "a"}
      /\ split.nest \in Seq({"close", "end"}) /\ ~InCode /\ Top # "block" /\ inside # <<>>
  <2>1. /\ Structure /\ Nested /\ DollarQuote /\ split.begun = "no" /\ Top \in {"empty", "a"}
    BY <1>1, TagLetters DEF SplitInv, Words
  <2> QED
    BY <2>1, NestFacts, Tops DEF InCode, Structure
<1> DEFINE window == Append(Window, r)
           tag == Tags[Top]
<1>3. split' = Feed(split, r) /\ split.state = Waiting(tag, Window)
  BY <1>1, <1>2, OneSymbol DEF DollarQuote
<1>4. Found(Top, now(r), window) /\ Follows(Top, now(r), window)
  BY <1>1, <1>2, WindowMoves
<1>5. Begun(split, r) = "no"
  BY <1>1, <1>2 DEF Begun
<1> HIDE DEF window, tag
<1>6. CASE IsSuffix(Tags[Top], now(r))
  <2>1. window = tag
    BY <1>4, <1>6 DEF Found, tag
  <2>2. split' = Fed(split, r, split.nest, ReadyState)
    <3>1. split' = Fed(split, r, Leave(split.nest, r), ReadyState)
      BY <1>2, <1>3, <2>1, DollarEnds DEF window
    <3>2. r \notin {"close", "end"}
      OBVIOUS
    <3> QED
      BY <1>2, <3>1, <3>2, LeavesNothing
  <2>3. inside' = Front(inside) /\ glue' = "alone"
    BY <1>1, <1>6
  <2>4. Structure' /\ Nested' /\ InCode'
    BY <1>2, <2>2, <2>3, NestCloses
  <2>5. /\ split'.state = ReadyState /\ split'.cut = FALSE /\ split'.begun = Begun(split, r)
    BY <2>2 DEF Fed
  <2>6. CodeState' /\ WordsSeen' /\ WordsOnly'
    BY <1>5, <2>3, <2>5 DEF CodeState, WordsSeen, WordsOnly, Named, NoWord
  <2> QED
    BY <1>1, <2>4, <2>5, <2>6, InCodeAgain
<1>7. CASE ~IsSuffix(Tags[Top], now(r))
  <2>1. window # tag
    BY <1>4, <1>7 DEF Found, tag
  <2>2. split' = Fed(split, r, split.nest, Waiting(tag, Tail(window)))
    BY <1>2, <1>3, <2>1, DollarStays DEF window
  <2>3. content' = Kept(now(r)) /\ UNCHANGED inside
    BY <1>1, <1>7
  <2>4. Structure' /\ Nested' /\ Top' = Top
    BY <1>2, <2>2, <2>3, NestStays
  <2>5. /\ split'.state = Waiting(tag, Tail(window)) /\ split'.cut = FALSE
        /\ split'.begun = Begun(split, r)
    BY <2>2 DEF Fed
  <2>6. DollarQuote'
    <3>1. /\ Window' = Tail(window)
          /\ (\E x : content' = <<x>>) \/ (\E x, y : content' = <<x, y>>)
      BY <1>4, <2>1, <2>3, <2>4 DEF Follows, Window, tag
    <3>2. (Tags[Top])' = tag
      BY <2>4 DEF Tags, tag
    <3> QED
      BY <2>5, <3>1, <3>2 DEF DollarQuote
  <2>7. Top' \in DOMAIN Tags
    BY <1>1, <2>4
  <2> QED
    BY <1>1, <1>5, <2>4, <2>5, <2>6, <2>7, InDollarNow
<1> QED
  BY <1>6, <1>7

-----------------------------------------------------------------------------
\* SplitInv says of a state what its variables do.
LEMMA Stutters ==
  ASSUME SplitInv, UNCHANGED splitterVars
  PROVE  SplitInv'
<1> USE DEF splitterVars
<1>1. Top' = Top /\ (InCode' <=> InCode) /\ (InString' <=> InString) /\ (Named' <=> Named)
      /\ (NoWord' <=> NoWord) /\ Window' = Window
  BY DEF Top, InCode, InString, Named, NoWord, Window
<1>2. Structure' /\ Nested'
  BY <1>1 DEF SplitInv, Structure, Nested, Has
<1>3. Words' /\ (InCode' => CodeState')
  BY <1>1 DEF SplitInv, Words, WordsSeen, WordsOnly, CodeState
<1>4. StringState' /\ LineState' /\ DollarQuote' /\ BlockState'
  BY <1>1 DEF SplitInv, StringState, LineState, DollarQuote, BlockState
<1> QED
  BY <1>2, <1>3, <1>4 DEF SplitInv, SplitsAtStatements

LEMMA SplitStarts == SplitInit => SplitInv
<1> SUFFICES ASSUME SplitInit PROVE SplitInv
  OBVIOUS
<1>1. /\ inside = <<>> /\ glue = "none" /\ ends = FALSE /\ split = Fresh
      /\ Len(inside) = 0 /\ Len(<<>>) = 0
  BY DEF SplitInit
<1>2. /\ DOMAIN split = {"nest", "state", "before", "name", "begun", "cut"}
      /\ split.nest = <<>> /\ split.state = ReadyState /\ split.name = FALSE
      /\ split.begun = "no" /\ split.cut = FALSE
  BY <1>1 DEF Fresh
<1>3. Top = "statement" /\ DOMAIN Tags = {"empty", "a"}
  BY <1>1 DEF Top, Tags
<1>4. Structure /\ Nested
  BY <1>1, <1>2 DEF Structure, Nested, Has
<1>5. InCode /\ CodeState /\ Words
  BY <1>1, <1>2, <1>3 DEF InCode, CodeState, Words, WordsSeen, WordsOnly, Named, NoWord
<1>6. StringState /\ LineState /\ DollarQuote /\ BlockState
  BY <1>3 DEF StringState, InString, LineState, DollarQuote, BlockState
<1> QED
  BY <1>1, <1>2, <1>4, <1>5, <1>6 DEF SplitInv, SplitsAtStatements

LEMMA SplitSteps == SplitInv /\ [SplitNext]_splitterVars => SplitInv'
<1> SUFFICES ASSUME SplitInv, [SplitNext]_splitterVars PROVE SplitInv'
  OBVIOUS
<1>1. ASSUME Name \/ White \/ Operator \/ Semi \/ Parameter \/ Escape
      PROVE  SplitInv'
  <2>1. CodeInv
    BY <1>1, CodeHas DEF Name, White, Operator, Semi, Parameter, Escape
  <2> QED
    BY <1>1, <2>1, NameStep, WhiteStep, OperatorStep, SemiStep, ParameterStep, EscapeStep
<1>2. ASSUME OpenParen \/ CloseParen \/ BeginBody \/ EndBody
      PROVE  SplitInv'
  <2>1. InCode
    BY <1>2 DEF OpenParen, CloseParen, BeginBody, EndBody, InCode, Top
  <2>2. CodeInv
    BY <2>1, CodeHas
  <2> QED
    BY <1>2, <2>2, OpenParenStep, CloseParenStep, BeginBodyStep, EndBodyStep
<1>3. ASSUME OpenString \/ OpenLine \/ OpenDollar
      PROVE  SplitInv'
  <2>1. CodeInv
    BY <1>3, CodeHas DEF OpenString, OpenLine, OpenDollar
  <2> QED
    BY <1>3, <2>1, OpenStringStep, OpenLineStep, OpenDollarStep
<1>4. CASE StringGoesOn \/ CloseString
  BY <1>4, StringGoesOnStep, CloseStringStep
<1>5. CASE LineGoesOn \/ CloseLine
  BY <1>5, LineGoesOnStep, CloseLineStep
<1>6. CASE OpenBlock \/ BlockGoesOn \/ CloseBlock
  BY <1>6, OpenBlockStep, BlockGoesOnStep, CloseBlockStep
<1>7. CASE DollarGoesOn
  BY <1>7, DollarGoesOnStep
<1>8. CASE UNCHANGED splitterVars
  BY <1>8, Stutters
<1> QED
  BY <1>1, <1>2, <1>3, <1>4, <1>5, <1>6, <1>7, <1>8 DEF SplitNext

\* The splitter cuts a text that follows the lexical rules exactly where a
\* statement ends, however deep its constructs are nested (Split, pkg/parser).
THEOREM CutsAtStatements == SplitSpec => []SplitsAtStatements
<1>1. SplitInv => SplitsAtStatements
  BY DEF SplitInv
<1> QED
  BY <1>1, SplitStarts, SplitSteps, PTL DEF SplitSpec
=============================================================================
