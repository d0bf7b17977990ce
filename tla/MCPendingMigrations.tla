------------------------ MODULE MCPendingMigrations ------------------------
(***************************************************************************)
(* PendingMigrations for TLC.  A digit string is a sequence of digits; the *)
(* character '_' is 10, above every digit, and '.' is below (a file such   *)
(* as .gitkeep).                                                           *)
(***************************************************************************)
EXTENDS PendingMigrations

CONSTANT Widths  \* the lengths of the versions

Strings == UNION {[1 .. n -> {1, 2}] : n \in Widths}

\* The order of Go strings, of file names, and of digit strings in Postgres.
Before(s, t) ==
  \E n \in 0 .. Len(s) :
    /\ n <= Len(t) /\ SubSeq(s, 1, n) = SubSeq(t, 1, n)
    /\ \/ n = Len(s) /\ n < Len(t)
       \/ n < Len(s) /\ n < Len(t) /\ s[n + 1] < t[n + 1]

FileName(e) == IF e = <<>> THEN <<0 - 1>> ELSE e \o <<10>>

MCOther == <<>>
MCPrecedes == {p \in Strings \X Strings : Before(p[1], p[2])}
MCDirOrder ==
  {p \in (Strings \cup {<<>>}) \X (Strings \cup {<<>>}) :
     Before(FileName(p[1]), FileName(p[2]))}
MCDeprecated == {<<1, 1>>} \cap Strings
=============================================================================
