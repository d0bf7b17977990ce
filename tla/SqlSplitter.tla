---------------------------- MODULE SqlSplitter ----------------------------
(***************************************************************************)
(* How a migration file is split into statements (pkg/parser), on texts    *)
(* that follow the lexical rules of PostgreSQL.                            *)
(*                                                                         *)
(* The text is written token by token; inside says what it really is in:   *)
(* parentheses, a BEGIN ATOMIC body, a string, a comment, a dollar quote.  *)
(* The splitter, a state machine that looks at one rune at a time and at   *)
(* the end of what it has read, is fed the symbols of each token.  A       *)
(* symbol is a rune, or a word of which only the last rune matters         *)
(* ("begin", "atomic", "end"); "torn" is the rest of a letter of several   *)
(* bytes, which ScanToken meets again: width is shadowed within its loop,  *)
(* and last goes on by one.                                                *)
(*                                                                         *)
(* What the splitter is known to misread is not written.  The guards that  *)
(* say so are marked "misread".  Besides: a quote that a backslash escapes *)
(* in an E'' string; a tag with a torn letter; a dollar quote within a     *)
(* name; and a comment between BEGIN and ATOMIC.                           *)
(***************************************************************************)
EXTENDS Naturals, SequencesExt

CONSTANT MaxNesting  \* bound: constructs within constructs

ASSUME NestingAssumption == MaxNesting \in Nat

VARIABLES
  inside,   \* the constructs that the text is in, outermost first
  content,  \* the last two symbols of a dollar quote, without its tag
  glue,     \* what the text ends with, as far as the next token depends on it
  ends,     \* does a statement end with the last token?
  split     \* the splitter

splitterVars == <<inside, content, glue, ends, split>>

Word(r) == r \in {"letter", "begin", "atomic", "end"}
InTag(r) == Word(r) \/ r = "digit"
IsIdentifierRune(r) == InTag(r) \/ r \in {"torn", "dollar"}
Space(r) == r \in {"space", "newline"}

-----------------------------------------------------------------------------
(***************************************************************************)
(* The splitter: nest, the delimiters of the AtomicStates around one other *)
(* state; before, name and begun, what BlockState and isBeginAtomic would  *)
(* find at the end of the data; and whether a statement has been emitted.  *)
(***************************************************************************)

ReadyState == [kind |-> "ready"]
Fresh == [nest |-> <<>>, state |-> ReadyState, before |-> "none", name |-> FALSE,
          begun |-> "no", cut |-> FALSE]

\* What Next returns: a state, an AtomicState around it, or nil.
Goes(state) == [state |-> state, opens |-> <<>>, emit |-> FALSE]
Atomic(delimiter) == [state |-> ReadyState, opens |-> <<delimiter>>, emit |-> FALSE]
Emit == [state |-> ReadyState, opens |-> <<>>, emit |-> TRUE]

\* The last runes of the data are compared with the tag: seen has them,
\* those of the opening tag to begin with.
DollarState(tag) == Goes([kind |-> "dollar", tag |-> tag, seen |-> Tail(tag)])

ReadyNext(r, begun) ==
  CASE r = "dollar" -> Goes([kind |-> "tag", tag |-> <<r>>])
    [] r \in {"quote", "ident"} ->
         Goes([kind |-> "quote", delimiter |-> r, escape |-> FALSE])
    [] r = "dash" -> Goes([kind |-> "comment"])
    [] r = "slash" -> Goes([kind |-> "block", depth |-> 0])
    [] r = "backslash" -> Goes([kind |-> "escape"])
    [] r = "semi" -> Emit
    [] r = "open" -> Atomic("close")
    [] r = "atomic" /\ begun = "spaced" -> Atomic("end")
    [] OTHER -> Goes(ReadyState)

CommentNext(r, begun) ==
  IF r = "dash" THEN DollarState(<<"newline">>) ELSE ReadyNext(r, begun)

\* Faulty variant: block comments do not nest.
BlockNeverNests(s, window, begun) ==
  CASE window = <<"slash", "star">> -> Goes([s EXCEPT !.depth = 1])
    [] window # <<"slash", "star">> /\ s.depth = 0 -> ReadyNext(window[2], begun)
    [] window = <<"star", "slash">> /\ s.depth = 1 -> Goes(ReadyState)
    [] OTHER -> Goes(s)

BlockNext(s, window, begun) ==
  CASE window = <<"slash", "star">> -> Goes([s EXCEPT !.depth = @ + 1])
    [] window # <<"slash", "star">> /\ s.depth = 0 -> ReadyNext(window[2], begun)
    [] window = <<"star", "slash">> /\ s.depth = 1 -> Goes(ReadyState)
    [] window = <<"star", "slash">> /\ s.depth > 1 -> Goes([s EXCEPT !.depth = @ - 1])
    [] OTHER -> Goes(s)

\* A doubled quote stands for a quote: the string has ended when another rune
\* follows.
QuoteNext(s, r, begun) ==
  IF s.escape /\ r # s.delimiter THEN ReadyNext(r, begun)
  ELSE Goes([s EXCEPT !.escape = ~s.escape /\ r = s.delimiter])

DollarNext(s, r) ==
  LET window == Append(s.seen, r)
  IN  IF window = s.tag THEN Goes(ReadyState) ELSE Goes([s EXCEPT !.seen = Tail(window)])

TagNext(s, r, begun) ==
  CASE r = "dollar" -> DollarState(Append(s.tag, r))
    [] InTag(r) -> Goes([s EXCEPT !.tag = Append(@, r)])
    [] OTHER -> ReadyNext(r, begun)

NextState(s, r, before, begun) ==
  CASE s.kind = "ready" -> ReadyNext(r, begun)
    [] s.kind = "comment" -> CommentNext(r, begun)
    [] s.kind = "block" -> BlockNext(s, <<before, r>>, begun)
    [] s.kind = "quote" -> QuoteNext(s, r, begun)
    [] s.kind = "dollar" -> DollarNext(s, r)
    [] s.kind = "tag" -> TagNext(s, r, begun)
    [] s.kind = "escape" -> Goes(ReadyState)

\* An AtomicState around a ready one is left if the rune ends it; the one
\* around it then holds a ready state, and compares the same rune.
Leave(nest, r) ==
  SubSeq(nest, 1, CHOOSE k \in 0 .. Len(nest) :
    /\ k > 0 => nest[k] # r
    /\ \A m \in k + 1 .. Len(nest) : nest[m] = r)

\* isBeginAtomic: BEGIN as a word of its own, then space.
Begun(s, r) ==
  CASE r = "begin" /\ ~s.name -> "word"
    [] Space(r) /\ s.begun # "no" -> "spaced"
    [] OTHER -> "no"

\* One rune.  A nil within an AtomicState leaves the state in it as it was.
Feed(s, r) ==
  LET n == NextState(s.state, r, s.before, s.begun)
      ready == n = Goes(ReadyState)
  IN  IF n.emit /\ s.nest = <<>> THEN [Fresh EXCEPT !.cut = TRUE]
      ELSE [nest |-> IF ready THEN Leave(s.nest, r) ELSE s.nest \o n.opens,
            state |-> IF n.emit THEN s.state ELSE n.state,
            before |-> r, name |-> IsIdentifierRune(r), begun |-> Begun(s, r),
            cut |-> FALSE]

ScanToken(token) ==
  LET after[n \in 0 .. Len(token)] ==
        IF n = 0 THEN [split EXCEPT !.cut = FALSE] ELSE Feed(after[n - 1], token[n])
  IN  split' = after[Len(token)]

-----------------------------------------------------------------------------
(***************************************************************************)
(* The text.                                                               *)
(***************************************************************************)

SplitInit ==
  /\ inside = <<>> /\ content = <<>> /\ glue = "none" /\ ends = FALSE
  /\ split = Fresh

Top == IF inside = <<>> THEN "statement" ELSE Last(inside)
InCode == Top \in {"statement", "paren", "left", "body"}
InString == Top \in {"quote", "ident"}
Named == glue \in {"letter", "begin"}

\* After a parameter, or a word that must stand alone.
NoWord == glue \in {"param", "stale", "alone"}

\* The dollar quotes in the text, by the construct.
Tags == [empty |-> <<"dollar", "dollar">>, a |-> <<"dollar", "letter", "dollar">>]

Token(token, now) ==
  /\ ScanToken(token)
  /\ glue' = now
  /\ ends' = FALSE
  /\ content' = <<>>

Open(construct, token, now) ==
  /\ Len(inside) < MaxNesting
  /\ inside' = Append(inside, construct)
  /\ Token(token, now)

\* What BEGIN and space leave for ATOMIC to find; the newline of a comment
\* that ends with BEGIN is taken for it as well.
Blank(now) ==
  CASE glue = "begin" \/ glue = "begun" -> now
    [] glue = "commented" -> "commented"
    [] OTHER -> "space"

\* BEGIN must be a word of its own.
WordGlue(r) == IF r = "begin" /\ ~Named THEN "begin" ELSE "letter"

\* A name or a number, or a part of one.  Misread: any END within a body
\* ends it, that of CASE and one in a longer name too; ATOMIC after a column
\* BEGIN opens one.
Name == \E r \in {"letter", "digit", "torn", "begin", "atomic", "end"} :
  /\ InCode /\ ~NoWord
  /\ r = "end" /\ "body" \in ToSet(inside) => Top = "paren"
  /\ r = "atomic" => glue \notin {"begun", "commented"}
  /\ Token(IF r = "torn" THEN <<"letter", "torn">> ELSE <<r>>, WordGlue(r))
  /\ UNCHANGED inside

White == \E r \in {"space", "newline"} :
  /\ InCode
  /\ Token(<<r>>, Blank("begun"))
  /\ UNCHANGED inside

Operator == \E r \in {"dash", "slash", "star"} :
  /\ InCode
  /\ glue # (CASE r = "dash" -> "dash" [] r = "star" -> "slash" [] OTHER -> "none")
  /\ Token(<<r>>, r)
  /\ UNCHANGED inside

\* No expression ends with these operators.  Misread: a semicolon in
\* parentheses (CREATE RULE ... DO (...; ...)) after nested ones have ended.
Semi ==
  /\ InCode /\ glue \notin {"dash", "slash"}
  /\ inside # <<>> => {"paren", "body"} \cap ToSet(inside) # {}
  /\ ScanToken(<<"semi">>)
  /\ ends' = (inside = <<>>)
  /\ glue' = IF inside # <<>> /\ glue \in {"param", "stale"} THEN "stale" ELSE "semi"
  /\ UNCHANGED <<inside, content>>

OpenParen == InCode /\ Open("paren", <<"open">>, "other")

\* The parentheses around one that ends are left by the splitter with it.
CloseParen ==
  /\ Top \in {"paren", "left"}
  /\ inside' = [k \in 1 .. Len(inside) - 1 |->
                 IF inside[k] = "paren" THEN "left" ELSE inside[k]]
  /\ Token(<<"close">>, "other")

BeginBody ==
  /\ inside = <<>> /\ glue = "begun"
  /\ Open("body", <<"atomic">>, "alone")

\* Misread: END directly after "$1;", which becomes part of a tag.
EndBody ==
  /\ Top = "body" /\ ~Named /\ ~NoWord
  /\ inside' = Front(inside)
  /\ Token(<<"end">>, "alone")

Parameter ==
  /\ InCode /\ ~Named /\ ~NoWord
  /\ Token(<<"dollar", "digit">>, "param")
  /\ UNCHANGED inside

\* psql's \; does not end a statement.
Escape ==
  /\ InCode
  /\ Token(<<"backslash", "semi">>, "other")
  /\ UNCHANGED inside

OpenString == \E r \in {"quote", "ident"} :
  /\ InCode /\ glue # r
  /\ Open(r, <<r>>, "other")

Symbols == {"letter", "dollar", "quote", "ident", "dash", "slash", "star", "backslash",
            "semi", "open", "close", "space", "newline", "begin", "atomic", "end"}

StringGoesOn ==
  /\ InString
  /\ \/ \E r \in Symbols \ {Top} : Token(<<r>>, "other")
     \/ Token(<<Top, Top>>, "other")
  /\ UNCHANGED inside

CloseString ==
  /\ InString
  /\ inside' = Front(inside)
  /\ Token(<<Top>>, Top)

OpenLine == InCode /\ glue # "dash" /\ Open("line", <<"dash", "dash">>, "other")

LineGoesOn == \E r \in Symbols \ {"newline"} :
  /\ Top = "line"
  /\ Token(<<r>>, CASE Word(r) -> WordGlue(r)
                    [] r = "space" -> Blank("begun")
                    [] OTHER -> "other")
  /\ UNCHANGED inside

CloseLine ==
  /\ Top = "line"
  /\ inside' = Front(inside)
  /\ Token(<<"newline">>, Blank("commented"))

\* Block comments nest.  Misread: delimiters that overlap, as in /*/ and, in
\* a nested one, */*.
OpenBlock ==
  /\ \/ InCode
     \/ Top = "block" /\ glue \notin {"star", "opened"}
  /\ Open("block", <<"slash", "star">>, "opened")

BlockGoesOn == \E r \in Symbols :
  /\ Top = "block"
  /\ r = "star" => glue \notin {"slash", "closed"}
  /\ r = "slash" => glue \notin {"star", "opened"}
  /\ Token(<<r>>, IF r \in {"star", "slash"} THEN r ELSE "other")
  /\ UNCHANGED inside

CloseBlock ==
  /\ Top = "block" /\ glue \notin {"slash", "closed"}
  /\ inside' = Front(inside)
  /\ Token(<<"star", "slash">>, "closed")

OpenDollar == \E t \in DOMAIN Tags :
  /\ InCode /\ ~Named /\ ~NoWord
  /\ Open(t, Tags[t], "other")

\* The quote ends with the first occurrence of its tag.  Misread: one that
\* overlaps the opening tag, as in $$$ and $a$a$; BEGIN directly after $$.
DollarGoesOn == \E r \in {"letter", "digit", "dollar", "quote", "dash", "semi", "newline"} :
  /\ Top \in DOMAIN Tags
  /\ LET tag == Tags[Top]
         now == Append(content, r)
     IN  /\ r = "dollar" => content # SubSeq(tag, 2, Len(tag) - 1)
         /\ ScanToken(<<r>>)
         /\ IF IsSuffix(tag, now)
            THEN inside' = Front(inside) /\ content' = <<>> /\ glue' = "alone"
            ELSE /\ content' = IF Len(now) > 2 THEN Tail(now) ELSE now
                 /\ UNCHANGED <<inside, glue>>
  /\ ends' = FALSE

SplitNext ==
  \/ Name \/ White \/ Operator \/ Semi \/ Parameter \/ Escape
  \/ OpenParen \/ CloseParen \/ BeginBody \/ EndBody
  \/ OpenString \/ StringGoesOn \/ CloseString
  \/ OpenLine \/ LineGoesOn \/ CloseLine
  \/ OpenBlock \/ BlockGoesOn \/ CloseBlock
  \/ OpenDollar \/ DollarGoesOn

SplitSpec == SplitInit /\ [][SplitNext]_splitterVars

-----------------------------------------------------------------------------
\* The splitter cuts the text exactly where a statement ends: never at a
\* semicolon in a string, a comment, a dollar quote, parentheses or a body,
\* and at each one outside, whatever came before it (Split, pkg/parser).
SplitsAtStatements == split.cut = ends
=============================================================================
