-------------------------- MODULE IncludeReference ---------------------------
(***************************************************************************)
(* What load_include_graph should find, defined from the decks alone and   *)
(* compared with what the traversal of IncludeLoader has found at its end. *)
(***************************************************************************)
EXTENDS IncludeLoader, SequencesExt, Functions

Loaded == {n \in Names : decks[n] # None}
References(n) == {i \in DOMAIN decks[n].items : decks[n].items[i] # Param}
Codes == {issue[1] : issue \in issues}
Includes == {<<e[1], e[3]>> : e \in ToSet(edges)}

\* Some decks each include one of them: without end, and so in a cycle.
Cyclic == \E s \in SUBSET Names : s # {} /\ \A n \in s : \E m \in s : <<n, m>> \in Includes

\* The deck an include reference leads to.
Follow(n, i) == (CHOOSE e \in ToSet(edges) : e[1] = n /\ e[2] = i)[3]

\* The .param cards below a deck, with every include replaced by the text it
\* includes; it is only asked of an acyclic graph.
Flattened(root) ==
  LET flat[n \in Names] ==
        IF decks[n] = None THEN <<>>
        ELSE FlattenSeq([i \in DOMAIN decks[n].items |->
               IF decks[n].items[i] = Param THEN <<<<n, i>>>> ELSE flat[Follow(n, i)]])
  IN  flat[root]

\* A report without a load issue is about the whole netlist: every reference of
\* every deck was followed to a deck that was parsed, and each deck but the
\* entry is included from exactly one place.
CompleteWhenClean ==
  pc = "done" /\ issues = {} =>
    /\ entry \in Loaded
    /\ \A n \in Loaded : \A i \in References(n) :
         \E e \in ToSet(edges) : e[1] = n /\ e[2] = i /\ e[3] \in Loaded
    /\ \A n \in Loaded :
         Cardinality({e \in ToSet(edges) : e[3] = n}) = IF n = entry THEN 0 ELSE 1

\* INCL001, which denies, is reported exactly when the includes that were found
\* form a cycle, unless a reported limit or unreadable file cut the traversal
\* short.  A repeat alone (INCL003) only asks for review.
CyclesReported ==
  pc = "done" /\ Codes \intersect {"INCL002", "FILE001", "PARSE001"} = {} =>
    ("INCL001" \in Codes <=> Cyclic)

\* Parameter assignments are replayed in the order of the text that results
\* when each include is replaced by what it includes.
ParamsInOrder ==
  pc = "done" /\ issues = {} => params = Flattened(entry)

\* The digests of a report vouch for everything the verdict is about, although
\* the files may change while they are read: each deck was parsed from a text
\* that was digested, and the bytes digested are the bytes accounted for.
EverythingDigested ==
  /\ \A n \in Loaded : \E c \in Files : texts[c] = decks[n]
  /\ total = SumFunction([c \in Files |-> texts[c].bytes])
=============================================================================
