--------------------------- MODULE MCIncludeLoader ---------------------------
(***************************************************************************)
(* Instances of IncludeLoader: every small include graph in a directory    *)
(* nobody touches, and a few directories that are edited while being read. *)
(***************************************************************************)
EXTENDS ParameterScopes

CONSTANTS man, deckA, deckB, deckC, p, q, r, s

Text(form, bytes, said, items) ==
  [form |-> form, bytes |-> bytes, entry |-> said, items |-> items]
DeckOf(items) == Text("deck", 1, Broken, items)

UpTo(k, items) == UNION {[1 .. j -> items] : j \in 0 .. k}

AllNames == {man, deckA, deckB, deckC}

\* Every deck of up to two includes and cards over three names; the third deck
\* has at most one item, so that cycles of length three remain.
LongDecks == {DeckOf(items) : items \in UpTo(2, {deckA, deckB, deckC, Param})}
ShortDecks == {DeckOf(items) : items \in UpTo(1, {deckA, deckB, deckC, Param})}
GraphDisks ==
  {d \in [AllNames -> LongDecks \union {Gone}] :
     d[man] = Gone /\ d[deckA] # Gone /\ d[deckB] # Gone /\ d[deckC] \in ShortDecks}

\* Manifests, texts that do not parse or are too long, links and escapes; the
\* third deck leads on to the manifest's text, a fourth level.
OddTexts ==
  {Text("deck", 1, deckA, <<>>), Text("deck", 2, Broken, <<deckB, Param>>),
   Text("deck", 1, Broken, <<Unsafe, deckC>>), Text("malformed", 1, Broken, <<>>),
   Text("binary", 1, Broken, <<>>), Text("deck", 3, Broken, <<>>)}
LastDeck == Text("deck", 1, Broken, <<man>>)
OddContents == OddTexts \union {man, deckA, deckB, Gone, Outside}
OddReplacements ==
  {Text("deck", 2, Broken, <<deckB, Param>>), Text("binary", 1, Broken, <<>>), deckB, Gone}
OddDisks ==
  {d \in [AllNames -> OddContents \union {LastDeck}] :
     /\ d[man] \in {Outside, deckB, Text("deck", 1, deckA, <<>>)}
     /\ d[deckA] # LastDeck /\ d[deckB] # LastDeck
     /\ d[deckC] = LastDeck}

AllTexts == LongDecks \union OddTexts \union {LastDeck}
AllDisks == GraphDisks \union OddDisks

\* A chain of declarations whose order in the text is the opposite of that in
\* which they can be evaluated, a name declared twice and one that uses itself.
Sum(name, uses, adds) == [name |-> name, uses |-> uses, adds |-> adds, form |-> "sum"]
AllCards ==
  [place \in {deckA, deckB, deckC} \X (1 .. 2) |->
     CASE place = <<deckA, 1>> -> Sum(p, {q}, 1)
       [] place = <<deckA, 2>> -> Sum(q, {r}, 0)
       [] place = <<deckB, 1>> -> Sum(r, {}, 2)
       [] place = <<deckB, 2>> -> Sum(p, {}, 5)
       [] place = <<deckC, 1>> -> Sum(r, {r}, 1)
       [] OTHER -> Sum(q, {}, 7)]

\* The directories in which every include leads on.
AcyclicDisks ==
  {d \in GraphDisks :
     /\ \A i \in DOMAIN d[deckA].items : d[deckA].items[i] # deckA
     /\ d[deckB] # Gone /\ \A i \in DOMAIN d[deckB].items : d[deckB].items[i] \in {deckC, Param}
     /\ d[deckC] # Gone /\ \A i \in DOMAIN d[deckC].items : d[deckC].items[i] = Param}

AllCells ==
  {[header |-> h, body |-> b] :
     h \in {<<>>, <<Sum(p, {}, 1)>>, <<Sum(q, {p}, 1), Sum(p, {}, 3)>>},
     b \in {<<>>, <<Sum(r, {q}, 1)>>, <<[Sum(q, {}, 0) EXCEPT !.form = "malformed"]>>}}
AllOverrides ==
  {<<>>, <<Sum(p, {r}, 0)>>, <<Sum(p, {}, 6)>>, <<Sum(s, {}, 1)>>, <<[Sum(p, {}, 0) EXCEPT !.form = "bad"]>>}
=============================================================================
