--------------------------- MODULE StorageObjects ---------------------------
(***************************************************************************)
(* storage rm and storage mv on one bucket (internal/storage).             *)
(*                                                                         *)
(* A path is a sequence of names.  Directories exist only as prefixes of   *)
(* objects: with -r a command lists one after the other, page by page, and *)
(* removes or moves the objects it finds, which changes the listing it     *)
(* reads.  An object holds the path that it had when the command started,  *)
(* or <<>> if another client has uploaded it since.                        *)
(*                                                                         *)
(* The storage API is external: a listing is sorted, page n of it begins   *)
(* at n * PAGE_LIMIT, an object is not moved over another one, a bucket    *)
(* that is not empty is not deleted.  Paths are given without a trailing   *)
(* slash; deletions by other clients shift the pages and are left out, and *)
(* so is a move that puts objects two levels down into the directory they  *)
(* are in: it can find the directories it makes for ever.                  *)
(***************************************************************************)
EXTENDS Naturals, FiniteSets, SequencesExt

CONSTANTS
  NumNames,    \* bound: names in a directory
  MaxDepth,    \* bound: directories above an object, and itself
  Given,       \* the paths that a command may be given
  PAGE_LIMIT,
  MaxObjects,  \* bound: objects in the bucket when the command starts
  MaxUploads   \* bound: uploads of another client meanwhile

ASSUME StorageAssumption ==
  /\ NumNames \in Nat /\ MaxDepth \in Nat /\ PAGE_LIMIT \in Nat \ {0}
  /\ Given \subseteq Seq(1 .. NumNames)
  /\ MaxObjects \in Nat /\ MaxUploads \in Nat

VARIABLES
  objects,  \* by path
  first,    \* the paths when the command started
  command,  \* [op, from, to, recursive]
  phase,    \* "try" | "pop" | "list" | "act" | "over"
  dirs,     \* the queue of directories, the last first
  dir,      \* the one that is listed
  pages,    \* of it that have been read
  paths,    \* the entries in them that are still to be acted on
  count,    \* has mv found an object?
  outcome   \* "none" | "ok" | "declined", an end without an error too | "failed"

storageVars ==
  <<objects, first, command, phase, dirs, dir, pages, paths, count, outcome>>

\* A move can put an object one level below its former depth, and again.
Paths == UNION {[1 .. n -> 1 .. NumNames] : n \in 1 .. MaxDepth}
from == command.from
IsBelow(p) == IsStrictPrefix(from, p)
Finds(p) == p \in DOMAIN objects

StorageInit ==
  /\ \E n \in 0 .. MaxObjects : \E f \in [1 .. n -> Paths] : first = {f[i] : i \in 1 .. n}
  /\ objects = [p \in first |-> p]
  /\ command \in [op : {"rm", "mv"}, from : Given, to : Given, recursive : BOOLEAN]
  /\ command.op = "rm" => command.to = command.from
  /\ IsPrefix(from, command.to) => Len(command.to) <= Len(from) + 1
  /\ phase = "try" /\ dirs = <<>> /\ dir = <<>> /\ pages = 0 /\ paths = <<>>
  /\ count = FALSE /\ outcome = "none"

-----------------------------------------------------------------------------
Without(removed) == [p \in DOMAIN objects \ removed |-> objects[p]]

Moved(p, q) ==
  [r \in (DOMAIN objects \ {p}) \cup {q} |-> IF r = q THEN objects[p] ELSE objects[r]]

CanMove(p, q) == Finds(p) /\ ~Finds(q) /\ q # <<>>

Over(how) ==
  /\ phase' = "over" /\ outcome' = how
  /\ UNCHANGED <<first, command, dirs, dir, pages, paths, count>>

StartsWalk ==
  /\ dirs' = <<from>> /\ phase' = "pop"
  /\ UNCHANGED <<objects, first, command, dir, pages, paths, count, outcome>>

\* The prompt of rm.  Its default, which is taken without a terminal if --yes is
\* not given, is no: nothing is removed, and the command ends without an error.
DeclineDelete ==
  /\ phase = "try" /\ command.op = "rm"
  /\ from # <<>> \/ command.recursive
  /\ Over("declined") /\ UNCHANGED objects

\* "Always try deleting first in case the paths resolve to extensionless files."
TryDelete ==
  /\ phase = "try" /\ command.op = "rm"
  /\ \/ from = <<>> /\ ~command.recursive /\ Over("failed") /\ UNCHANGED objects
     \/ Finds(from) /\ objects' = Without({from}) /\ Over("ok")
     \/ from # <<>> /\ ~Finds(from) /\ ~command.recursive /\ Over("ok") /\ UNCHANGED objects
     \/ ~Finds(from) /\ command.recursive /\ StartsWalk

NoPath == from = <<>> /\ command.to = <<>>

TryMove ==
  /\ phase = "try" /\ command.op = "mv"
  /\ \/ CanMove(from, command.to) /\ objects' = Moved(from, command.to) /\ Over("ok")
     \/ /\ Finds(from) \/ NoPath \/ ~command.recursive
        /\ ~CanMove(from, command.to) /\ Over("failed") /\ UNCHANGED objects
     \/ ~Finds(from) /\ ~NoPath /\ command.recursive /\ StartsWalk

-----------------------------------------------------------------------------
PopDirectory ==
  /\ phase = "pop" /\ dirs # <<>>
  /\ dir' = Last(dirs) /\ dirs' = Front(dirs)
  /\ phase' = "list" /\ pages' = 0 /\ paths' = <<>>
  /\ UNCHANGED <<objects, first, command, count, outcome>>

\* What the API lists in a directory: the names of its objects, and of the
\* directories in it, which have no id.
Entries(d) ==
  {[name |-> p[Len(d) + 1], isDir |-> Len(p) > Len(d) + 1] :
     p \in {q \in DOMAIN objects : IsStrictPrefix(d, q)}}

\* In the order of their names, where a file comes before a directory.
Earlier(S) ==
  {w \in S \X S : \/ w[1].name < w[2].name
                  \/ w[1].name = w[2].name /\ ~w[1].isDir /\ w[2].isDir}

\* How many come before e, and the elements of a set in that order.
Rank(e, S, R) == Cardinality({f \in S : <<f, e>> \in R})
Sorted(S, R) == [n \in 1 .. Cardinality(S) |-> CHOOSE e \in S : Rank(e, S, R) = n - 1]

Listing(d) == Sorted(Entries(d), Earlier(Entries(d)))

Page(d, n) ==
  SubSeq(Listing(d), PAGE_LIMIT * n + 1, Min({PAGE_LIMIT * (n + 1), Len(Listing(d))}))

\* Faulty variant: pages are as long as they come.
NeverFull(page) == FALSE

IsFull(page) == Len(page) = PAGE_LIMIT

Path(e) == Append(dir, e.name)
Ascending(S) == {w \in S \X S : w[1] < w[2]}
DirsOf(entries) ==
  LET at == {i \in 1 .. Len(entries) : entries[i].isDir}
      found == Sorted(at, Ascending(at))
  IN  [n \in 1 .. Len(found) |-> Path(entries[found[n]])]
FilesOf(entries) == {Path(e) : e \in {f \in ToSet(entries) : ~f.isDir}}

\* Faulty variant: what is on a page is deleted before the next one is read.
DeletePage ==
  /\ phase = "list" /\ command.op = "rm"
  /\ LET page == Page(dir, pages)
     IN  /\ dirs' = dirs \o DirsOf(page)
         /\ objects' = Without(FilesOf(page))
         /\ phase' = IF IsFull(page) THEN "list" ELSE "pop"
  /\ pages' = pages + 1
  /\ UNCHANGED <<first, command, dir, paths, count, outcome>>

ListObjects ==
  /\ phase = "list"
  /\ LET page == Page(dir, pages)
     IN  /\ paths' = paths \o page
         /\ phase' = IF IsFull(page) THEN "list" ELSE "act"
  /\ pages' = pages + 1
  /\ UNCHANGED <<objects, first, command, dirs, dir, count, outcome>>

DeleteObjects ==
  /\ phase = "act" /\ command.op = "rm"
  /\ IF paths = <<>> /\ from # <<>> THEN Over("failed") /\ UNCHANGED objects
     ELSE /\ dirs' = dirs \o DirsOf(paths)
          /\ objects' = Without(FilesOf(paths))
          /\ phase' = "pop" /\ paths' = <<>>
          /\ UNCHANGED <<first, command, dir, pages, count, outcome>>

\* Where an object below the given directory is moved to.
Destination(p) == command.to \o SubSeq(p, Len(from) + 1, Len(p))

MoveObject ==
  /\ phase = "act" /\ command.op = "mv"
  /\ IF paths = <<>> THEN phase' = "pop" /\ UNCHANGED <<objects, dirs, paths, count, outcome>>
     ELSE /\ paths' = Tail(paths)
          /\ LET p == Path(Head(paths)) IN
             IF Head(paths).isDir
             THEN dirs' = Append(dirs, p) /\ UNCHANGED <<objects, phase, count, outcome>>
             ELSE /\ count' = TRUE /\ UNCHANGED dirs
                  /\ IF CanMove(p, Destination(p))
                     THEN objects' = Moved(p, Destination(p)) /\ UNCHANGED <<phase, outcome>>
                     ELSE phase' = "over" /\ outcome' = "failed" /\ UNCHANGED objects
  /\ UNCHANGED <<first, command, dir, pages>>

\* A bucket is deleted after its objects.
Finish ==
  /\ phase = "pop" /\ dirs = <<>>
  /\ LET refused == IF command.op = "rm" THEN from = <<>> /\ DOMAIN objects # {} ELSE ~count
     IN  Over(IF refused THEN "failed" ELSE "ok")
  /\ UNCHANGED objects

\* Any request may fail.
RequestFails ==
  /\ phase \in {"try", "list"} \/ (phase = "act" /\ FilesOf(paths) # {})
  /\ Over("failed") /\ UNCHANGED objects

\* Another client uploads an object.
Upload == \E p \in Paths \ DOMAIN objects :
  /\ phase \notin {"try", "over"}
  /\ Cardinality({q \in DOMAIN objects : objects[q] = <<>>}) < MaxUploads
  /\ objects' = [q \in DOMAIN objects \cup {p} |-> IF q = p THEN <<>> ELSE objects[q]]
  /\ UNCHANGED <<first, command, phase, dirs, dir, pages, paths, count, outcome>>

StorageNext ==
  \/ DeclineDelete \/ TryDelete \/ TryMove \/ PopDirectory \/ ListObjects
  \/ DeleteObjects \/ MoveObject \/ Finish \/ RequestFails \/ Upload

StorageSpec == StorageInit /\ [][StorageNext]_storageVars

-----------------------------------------------------------------------------
\* What a command is asked to remove or move: the object of that path or,
\* only if there is none, everything below it.
Asked ==
  IF from \in first THEN {from}
  ELSE IF command.recursive THEN {p \in first : IsBelow(p)} ELSE {}

StaysAt(p, q) == Finds(q) /\ objects[q] = p

\* A recursive removal that was confirmed and reports success has removed every
\* object below the path, however many pages it took to list them and whatever
\* was uploaded meanwhile (RemoveStoragePathAll); and, also when it fails, no
\* other object.  One that was declined reports success as well (Run returns
\* nil), and has removed nothing.
RemovesAll ==
  command.op = "rm" =>
    /\ outcome = "ok" => \A p \in Asked : ~StaysAt(p, p)
    /\ outcome = "declined" => \A p \in first : StaysAt(p, p)
    /\ \A p \in first \ Asked : StaysAt(p, p)

\* A move into a directory of its own, one that exists or comes to exist by an
\* upload, lists that directory too, with what it has moved there.
MovesIntoItself ==
  /\ IsPrefix(from, command.to)
  /\ \/ \E p \in first : IsPrefix(command.to, p)
     \/ \E p \in DOMAIN objects : objects[p] = <<>>

\* A move to a place above the source can put an object back into a directory
\* of the source, and when that one has yet to be listed it is moved again: so
\* mv -r from 2 to the bucket itself, of 2/2/1/1 when there is a 2/1 as well.
MovesBack ==
  /\ ~IsPrefix(from, command.to)
  /\ \E p \in Asked : IsBelow(Destination(p)) /\ Len(Destination(p)) > Len(from) + 1

\* A move that reports success has moved every object below the source to the
\* same place below the destination, once, although it lists the directories
\* that it takes objects out of, and may put others into ones it has yet to
\* list (MoveStorageObjectAll), but for the two kinds of moves above; no other
\* object moves, also when it fails.
MovesAll ==
  command.op = "mv" =>
    /\ outcome = "ok" /\ ~MovesIntoItself /\ ~MovesBack =>
         \A p \in Asked : StaysAt(p, Destination(p))
    /\ \A p \in first \ Asked : StaysAt(p, p)
=============================================================================
