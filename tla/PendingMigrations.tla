------------------------- MODULE PendingMigrations -------------------------
(***************************************************************************)
(* How the pending migrations are computed: ListLocalMigrations lists the  *)
(* migrations directory, FindPendingMigrations merges the listing with the *)
(* rows of the history table in one pass over both, and                    *)
(* up.GetPendingMigrations turns its refusal of out-of-order migrations    *)
(* into a list when --include-all is given.                                *)
(*                                                                         *)
(* The pass relies on both lists being in the same order, but the rows are *)
(* ordered by version and the directory by file name, <version>_<name>.sql.*)
(* '_' sorts after every digit, so that 10_b.sql comes before 1_a.sql while*)
(* 1 comes before 10.  Precedes and DirOrder are the two orders.           *)
(***************************************************************************)
EXTENDS Naturals, Sequences, FiniteSets

CONSTANTS
  Versions,    \* digit strings
  Other,       \* a file that does not match the pattern of a migration
  Deprecated,  \* versions before 20211209000000 whose file is <version>_init.sql
  Precedes,    \* version < version as strings, a set of pairs
  DirOrder,    \* file before file in a listing, a set of pairs
  MaxFiles     \* bound: files in the directory

ASSUME DeprecatedAssumption == Deprecated \subseteq Versions
ASSUME OtherAssumption == Other \notin Versions
ASSUME OrderAssumption ==
  /\ Precedes \subseteq Versions \X Versions
  /\ DirOrder \subseteq (Versions \cup {Other}) \X (Versions \cup {Other})
\* "<" of Go strings, a strict total order; ORDER BY agrees with it on digits.
ASSUME PrecedesAssumption ==
  /\ \A v \in Versions : <<v, v>> \notin Precedes
  /\ \A u, v \in Versions : u # v => <<u, v>> \in Precedes \/ <<v, u>> \in Precedes
  /\ \A u, v, w \in Versions :
       <<u, v>> \in Precedes /\ <<v, w>> \in Precedes => <<u, w>> \in Precedes
ASSUME MaxFilesAssumption == MaxFiles \in Nat

VARIABLES
  entries,     \* fs.ReadDir of the migrations directory
  remote,      \* SELECT version ... ORDER BY version
  includeAll,  \* the flag --include-all
  listed,      \* the entries that have been gone through
  local,       \* localMigrations, each file by its version
  i, j,        \* the next remote row and the next local file (from 0)
  unapplied,   \* out-of-order local migrations
  missing,     \* remote migrations without a local file
  pc,          \* "list" | "merge" | "done"
  result       \* what GetPendingMigrations returns: an error and a list

vars == <<entries, remote, includeAll, listed, local, i, j, unapplied, missing, pc, result>>
inputs == <<entries, remote, includeAll>>
read == <<inputs, listed, local>>

Elements(s) == {s[k] : k \in 1 .. Len(s)}
Ordered(s, order) ==
  \A k, m \in 1 .. Len(s) : k < m => <<s[k], s[m]>> \in order
Distinct(s) == \A k, m \in 1 .. Len(s) : s[k] = s[m] => k = m
After(s, n) == SubSeq(s, n + 1, Len(s))  \* s[n:]

\* Two files may have the same version, under different names.
Listings ==
  {s \in UNION {[1 .. n -> Versions \cup {Other}] : n \in 0 .. MaxFiles} :
     Ordered(s, DirOrder \cup {<<v, v>> : v \in Versions})}

\* version is the primary key of the table.
Histories ==
  {s \in UNION {[1 .. n -> Versions] : n \in 0 .. Cardinality(Versions)} :
     Ordered(s, Precedes)}

-----------------------------------------------------------------------------
(***************************************************************************)
(* Faulty variants, each a plausible slip in the code.                     *)
(***************************************************************************)

\* An older local migration is passed over, as an applied one is.
UnappliedForgotten ==
  /\ pc = "merge" /\ i < Len(remote) /\ j < Len(local)
  /\ remote[i + 1] # local[j + 1]
  /\ <<remote[i + 1], local[j + 1]>> \notin Precedes
  /\ j' = j + 1
  /\ UNCHANGED <<read, i, unapplied, missing, pc, result>>

\* The rows that are left when the files run out are not looked at.
RowsLeft(rows) == <<>>

\* The list of --include-all goes on after the rows, not after the merge.
AllAfterRows == unapplied \o After(local, Len(remote))

\* The out-of-order migrations are appended to the others.
AllAppended == After(local, Len(remote) + Len(unapplied)) \o unapplied

-----------------------------------------------------------------------------
Init ==
  /\ remote \in Histories
  /\ entries \in Listings
  /\ includeAll \in BOOLEAN
  /\ listed = 0 /\ local = <<>>
  /\ i = 0 /\ j = 0
  /\ unapplied = <<>> /\ missing = <<>>
  /\ pc = "list"
  /\ result = [error |-> "none", list |-> <<>>]

\* The loop of ListLocalMigrations: a deprecated init file is skipped when it is
\* the first entry, and every file that does not match the pattern is.
List ==
  /\ pc = "list" /\ listed < Len(entries)
  /\ LET e == entries[listed + 1] IN
       local' = IF e = Other \/ (listed = 0 /\ e \in Deprecated) THEN local
                ELSE Append(local, e)
  /\ listed' = listed + 1
  /\ UNCHANGED <<inputs, i, j, unapplied, missing, pc, result>>

Listed ==
  /\ pc = "list" /\ listed = Len(entries)
  /\ pc' = "merge"
  /\ UNCHANGED <<read, i, j, unapplied, missing, result>>

(***************************************************************************)
(* The loop of FindPendingMigrations                                       *)
(***************************************************************************)
More == pc = "merge" /\ i < Len(remote) /\ j < Len(local)

\* remote == local
Match ==
  /\ More
  /\ remote[i + 1] = local[j + 1]
  /\ i' = i + 1 /\ j' = j + 1
  /\ UNCHANGED <<read, unapplied, missing, pc, result>>

\* remote < local
RemoteMissing ==
  /\ More
  /\ <<remote[i + 1], local[j + 1]>> \in Precedes
  /\ missing' = Append(missing, remote[i + 1])
  /\ i' = i + 1
  /\ UNCHANGED <<read, j, unapplied, pc, result>>

\* Include out-of-order local migrations.
LocalUnapplied ==
  /\ More
  /\ remote[i + 1] # local[j + 1]
  /\ <<remote[i + 1], local[j + 1]>> \notin Precedes
  /\ unapplied' = Append(unapplied, local[j + 1])
  /\ j' = j + 1
  /\ UNCHANGED <<read, i, missing, pc, result>>

\* The remote versions that follow the last local file are missing too.
MissingAfter(rows) == IF j = Len(local) THEN After(rows, i) ELSE <<>>

\* GetPendingMigrations with --include-all: the out-of-order migrations, then
\* what follows the ones the loop went through.
IncludeAll == unapplied \o After(local, Len(remote) + Len(unapplied))

\* The end of FindPendingMigrations and of GetPendingMigrations.
Return ==
  /\ pc = "merge"
  /\ ~More
  /\ LET gone == missing \o MissingAfter(remote)
     IN  result' =
           IF gone # <<>> THEN [error |-> "missing local", list |-> gone]
           ELSE IF unapplied = <<>>
           THEN [error |-> "none", list |-> After(local, Len(remote))]
           ELSE IF includeAll
           THEN [error |-> "none", list |-> IncludeAll]
           ELSE [error |-> "missing remote", list |-> unapplied]
  /\ pc' = "done"
  /\ UNCHANGED <<read, i, j, unapplied, missing>>

Next == List \/ Listed \/ Match \/ RemoteMissing \/ LocalUnapplied \/ Return

Spec == Init /\ [][Next]_vars

-----------------------------------------------------------------------------
(***************************************************************************)
(* Properties                                                              *)
(***************************************************************************)

\* Whatever the names in the directory: a list that is returned without an
\* error has every local migration that is not on remote and no other, once
\* ("Subsequent pushes will skip migrations that have already been applied").
\* Neither half follows from the loop alone: the list is a slice of the
\* directory counted from the number of rows.
PendingIsDifference ==
  pc = "done" /\ result.error = "none" /\ Distinct(local) =>
    /\ Elements(result.list) = Elements(local) \ Elements(remote)
    /\ Distinct(result.list)

\* The two slices of the directory stay inside it, even with two files of one
\* version: an index past the end would panic.
SlicesInBounds ==
  pc = "done" /\ result.error = "none" =>
    Len(remote) + Len(unapplied) <= Len(local)

\* The files are in the order of their versions, as they are when no version is
\* a prefix of another.
InOrder == Ordered(local, Precedes)

\* A refusal names its reason exactly: all remote versions without a file, or
\* all local migrations older than a remote one.
RefusalIsExact ==
  pc = "done" /\ InOrder =>
    LET there == Elements(remote)
        here == Elements(local)
        older == {l \in here \ there : \E r \in there : <<l, r>> \in Precedes}
    IN  /\ result.error = "missing local" => Elements(result.list) = there \ here
        /\ result.error = "missing remote" => Elements(result.list) = older
        /\ result.error = "none" => there \subseteq here
                                    /\ (includeAll \/ older = {})

\* Migrations are returned oldest first, out-of-order ones included.
OldestFirst ==
  pc = "done" /\ result.error = "none" /\ InOrder
    => Ordered(result.list, Precedes)

\* Once every local migration is on remote, the next push has nothing to do
\* ("Subsequent pushes will skip migrations that have already been applied").
UpToDate ==
  pc = "done" /\ Distinct(local) /\ Elements(local) = Elements(remote)
    => result = [error |-> "none", list |-> <<>>]
=============================================================================
