------------------------------- MODULE HashObject ------------------------------
(***************************************************************************)
(* A Hash (hash_object.cpp) and the loops over it whose blocks change it.  *)
(* A table finds the pairs, and a ring of HashKey nodes keeps their order; *)
(* a removed node keeps its links for the loops that stand on it.  Keys do *)
(* not change, the hash is not frozen, and values are left out: put of a   *)
(* key that is there changes nothing else.                                 *)
(***************************************************************************)
EXTENDS Naturals, Sequences, FiniteSets

CONSTANTS Keys,
          Nodes,      \* as many HashKey objects as may be in use at a time
          Null,
          MaxLoops    \* bound on loops inside each other

ASSUME HashAssumption == /\ Null \notin Nodes \cup Keys
                         /\ IsFiniteSet(Keys) /\ MaxLoops \in Nat

VARIABLES
  table,         \* m_hashmap: [Keys -> the node of the pair, or Null]
  m_key_list,    \* the first node
  next, prev,
  key,           \* [Nodes -> Keys \cup {Null}]
  removed,       \* the nodes that say so
  m_is_iterating,
  loops          \* the loops that are on, the innermost last

hashVars == <<table, m_key_list, next, prev, key, removed, m_is_iterating, loops>>

\* A loop: its method (delete_if and keep_if differ from each and to_h), the node its
\* iterator is at, and whether its block is running or operator++ is.  The rest is
\* history: nodes its block was called for, nodes of the pairs that are there since it
\* began and that it was not called for, whether the list it walks has been dropped,
\* and whether the last node was deleted while the iterator was at it, or at removed
\* nodes that led to it: then operator++ begins another round, as cut says until it stops.
Loop == [method : {"each", "delete_if"}, at : Nodes, at_block : BOOLEAN,
         seen : SUBSET Nodes, owed : SUBSET Nodes, dropped : BOOLEAN, cut : BOOLEAN]

InTable == {table[k] : k \in Keys} \ {Null}
Inner == loops[Len(loops)]
Outer == SubSeq(loops, 1, Len(loops) - 1)

\* Ruby code runs: the block of the innermost loop, or none.
RubyRuns == loops # <<>> => Inner.at_block

\* What S leads to by the links nx: the nodes of every set around it that they do not
\* leave.
Closed(T, nx) == \A n \in T : nx[n] \in T \cup {Null}
Following(S, nx) ==
  {n \in Nodes : \A T \in SUBSET Nodes : S \subseteq T /\ Closed(T, nx) => n \in T}

\* visit_children, and the stacks of the threads, on which iterators are
Visited(ls) == {ls[i].at : i \in DOMAIN ls}
Roots(in, ls) == in \cup Visited(ls)

\* The hash and the loops become what is given.  Nodes that nothing leads to are
\* reclaimed, and prev, which is read of nodes in the list only, is kept of those.
Only(f, S) == [n \in Nodes |-> IF n \in S THEN f[n] ELSE Null]
Become(tab, first, nx, pv, ky, gone, ls) ==
  LET in == {tab[k] : k \in Keys} \ {Null} IN
  /\ table' = tab /\ m_key_list' = first /\ loops' = ls
  /\ \E live \in {Following(Roots(in, ls), nx)} :
       /\ next' = Only(nx, live) /\ key' = Only(ky, live)
       /\ removed' = gone \cap live
  /\ prev' = Only(pv, in)
LoopsBecome(ls) == Become(table, m_key_list, next, prev, key, removed, ls)
Free == {n \in Nodes : key[n] = Null}

HashInit == /\ table = [k \in Keys |-> Null] /\ m_key_list = Null
            /\ next = [n \in Nodes |-> Null] /\ prev = [n \in Nodes |-> Null]
            /\ key = [n \in Nodes |-> Null]
            /\ removed = {} /\ m_is_iterating = FALSE /\ loops = <<>>

-------------------------------------------------------------------------------
(* The list                                                                  *)

\* key_list_append: the links with n appended, <<next, prev>>
LinkedToItself(n) == <<[next EXCEPT ![n] = n], [prev EXCEPT ![n] = n]>>
Appended(n) ==
  IF m_key_list = Null THEN LinkedToItself(n)
  ELSE LET last == prev[m_key_list]
       IN <<[next EXCEPT ![n] = m_key_list, ![last] = n],
            [prev EXCEPT ![n] = last, ![m_key_list] = n]>>

\* put of a new key; with m_is_iterating it raises, which ends the loop (Leave) or not.
Put(k) ==
  /\ RubyRuns /\ table[k] = Null /\ ~m_is_iterating /\ Free # {}
  /\ LET n == CHOOSE n \in Free : TRUE
     IN Become([table EXCEPT ![k] = n], IF m_key_list = Null THEN n ELSE m_key_list,
               Appended(n)[1], Appended(n)[2], [key EXCEPT ![n] = k], removed, loops)
  /\ UNCHANGED m_is_iterating

KeepFirst(n) == m_key_list    \* mutant of FirstWithout: the first node is not shifted
FirstWithout(n) == IF next[n] = n THEN Null ELSE IF m_key_list = n THEN next[n] ELSE m_key_list

\* key_list_remove_node: the links without n, <<next, prev>>
Unlinked(n) ==
  IF next[n] = n THEN <<[next EXCEPT ![n] = Null], [prev EXCEPT ![n] = Null]>>
  ELSE <<[next EXCEPT ![prev[n]] = next[n]], [prev EXCEPT ![next[n]] = prev[n]]>>

\* n is m, or what m leads to by removed nodes only.
ComesToOnly(m, n) == \E W \in SUBSET (removed \cup {n}) :
                       /\ m \in W /\ n \in W
                       /\ \A w \in W \ {n} : next[w] \in W

\* What the deletion of n changes of the history of a loop.
Told(loop, n) ==
  LET cut == loop.cut \/ (next[n] = m_key_list /\ ComesToOnly(loop.at, n))
  IN [loop EXCEPT !.owed = @ \ {n}, !.cut = cut, !.seen = IF cut THEN {} ELSE @ \ {n}]
Tell(n) == [i \in DOMAIN loops |-> Told(loops[i], n)]

\* remove of a key that is there, after which the loops are ls
RemoveKey(k, ls) ==
  LET n == table[k]
  IN Become([table EXCEPT ![k] = Null], FirstWithout(n), Unlinked(n)[1], Unlinked(n)[2],
            key, removed \cup {n}, ls)

Delete(k) ==
  /\ RubyRuns /\ table[k] # Null
  /\ RemoveKey(k, Tell(table[k]))
  /\ UNCHANGED m_is_iterating

\* Hash#shift: first begins a loop and leaves it.
Shift ==
  /\ RubyRuns /\ m_key_list # Null
  /\ RemoveKey(key[m_key_list], Tell(m_key_list))
  /\ m_is_iterating' = FALSE

\* The hash gets a new list, of the pairs with the keys of ks in their order.
Injections(ks) == {f \in [DOMAIN ks -> Free] : \A i, j \in DOMAIN ks : f[i] = f[j] => i = j}
ListDropped(loop) == [loop EXCEPT !.dropped = TRUE, !.cut = FALSE, !.seen = {}, !.owed = {}]
Rebuild(ks) ==
  /\ Injections(ks) # {}
  /\ LET node == CHOOSE f \in Injections(ks) : TRUE
         new == {node[i] : i \in DOMAIN ks}
         place(n) == CHOOSE i \in DOMAIN ks : node[i] = n
         after(i) == node[IF i = Len(ks) THEN 1 ELSE i + 1]
         before(i) == node[IF i = 1 THEN Len(ks) ELSE i - 1]
     IN Become([k \in Keys |-> IF \E i \in DOMAIN ks : ks[i] = k
                               THEN node[CHOOSE i \in DOMAIN ks : ks[i] = k] ELSE Null],
               IF ks = <<>> THEN Null ELSE node[1],
               [n \in Nodes |-> IF n \in new THEN after(place(n)) ELSE next[n]],
               [n \in Nodes |-> IF n \in new THEN before(place(n)) ELSE prev[n]],
               [n \in Nodes |-> IF n \in new THEN ks[place(n)] ELSE key[n]],
               removed, [i \in DOMAIN loops |-> ListDropped(loops[i])])

Sequences == UNION {{s \in [1..n -> Keys] : \A i, j \in 1..n : s[i] = s[j] => i = j}
                      : n \in 0..Cardinality(Keys)}

\* ks are the keys that are there, in the order of the list.
InOrder(ks) ==
  /\ {ks[i] : i \in DOMAIN ks} = {k \in Keys : table[k] # Null}
  /\ ks # <<>> => table[ks[1]] = m_key_list
  /\ \A i \in DOMAIN ks \ {1} : table[ks[i]] = next[table[ks[i - 1]]]

\* rehash and compare_by_identity
Rehash == /\ RubyRuns
          /\ \E ks \in {s \in Sequences : InOrder(s)} : Rebuild(ks)
          /\ UNCHANGED m_is_iterating

Clear == RubyRuns /\ Rebuild(<<>>) /\ m_is_iterating' = FALSE

\* replace by another hash, with keys ks
Replace(ks) == RubyRuns /\ Rebuild(ks) /\ m_is_iterating' = FALSE

-------------------------------------------------------------------------------
(* The loops                                                                 *)

Begin(method) ==
  /\ RubyRuns /\ Len(loops) < MaxLoops
  /\ LET loop == [method |-> method, at |-> m_key_list, at_block |-> TRUE,
                  seen |-> {m_key_list}, owed |-> InTable \ {m_key_list},
                  dropped |-> FALSE, cut |-> FALSE]
     IN LoopsBecome(IF m_key_list = Null THEN loops ELSE Append(loops, loop))
  /\ m_is_iterating' = IF method = "each" THEN m_key_list # Null ELSE m_is_iterating

WithInner(ls, loop) == [ls EXCEPT ![Len(ls)] = loop]

\* The block returns, in delete_if with falsity.
BlockReturns ==
  /\ loops # <<>> /\ Inner.at_block
  /\ LoopsBecome(WithInner(loops, [Inner EXCEPT !.at_block = FALSE]))
  /\ UNCHANGED m_is_iterating

\* The block of delete_if returns truth: the key is deleted, though its node may be
\* another one by now.
BlockAccepts ==
  /\ loops # <<>> /\ Inner.at_block /\ Inner.method = "delete_if"
  /\ LET k == key[Inner.at]
         told == Tell(table[k])
     IN /\ table[k] # Null
        /\ RemoveKey(k, WithInner(told, [told[Len(told)] EXCEPT !.at_block = FALSE]))
  /\ UNCHANGED m_is_iterating

FlagStays == m_is_iterating    \* mutant of FlagAfter: Defer does not run
FlagAfter == IF Inner.method = "each" THEN FALSE ELSE m_is_iterating

\* The end of the innermost loop, by its iterator, break or an exception, runs Defer.
EndLoop == /\ LoopsBecome(Outer)
           /\ m_is_iterating' = FlagAfter

Leave == loops # <<>> /\ Inner.at_block /\ EndLoop

EndsEarly(n) == next[n] \in {Null, m_key_list}    \* mutant of IsLast: removed is not looked at
IsLast(n) == next[n] = Null \/ (n \notin removed /\ next[n] = m_key_list)

StopAtAny(n) == TRUE    \* mutant of StopAt: removed nodes are not skipped
StopAt(n) == n \notin removed

\* A call of operator++, which calls itself while it comes to removed nodes.
Increment ==
  /\ loops # <<>> /\ ~Inner.at_block /\ ~IsLast(Inner.at)
  /\ LET n == next[Inner.at]
         called == IF StopAt(n) /\ ~Inner.dropped THEN {n} ELSE {}
     IN LoopsBecome(WithInner(loops, [Inner EXCEPT
          !.at = n, !.at_block = StopAt(n), !.seen = @ \cup called, !.owed = @ \ called,
          !.cut = @ /\ ~StopAt(n)]))
  /\ UNCHANGED m_is_iterating

IterationEnds == loops # <<>> /\ ~Inner.at_block /\ IsLast(Inner.at) /\ EndLoop

-------------------------------------------------------------------------------
HashNext == \/ \E k \in Keys : Put(k) \/ Delete(k)
            \/ \E ks \in Sequences : Replace(ks)
            \/ \E method \in {"each", "delete_if"} : Begin(method)
            \/ Shift \/ Rehash \/ Clear
            \/ BlockReturns \/ BlockAccepts \/ Leave
            \/ Increment \/ IterationEnds

HashSpec == HashInit /\ [][HashNext]_hashVars

-------------------------------------------------------------------------------
\* Every variable has its type; the table finds each key at a node with that key.
HashTypeOK ==
  /\ table \in [Keys -> Nodes \cup {Null}]
  /\ \A k \in Keys : table[k] # Null => key[table[k]] = k
  /\ m_key_list \in Nodes \cup {Null}
  /\ next \in [Nodes -> Nodes \cup {Null}] /\ prev \in [Nodes -> Nodes \cup {Null}]
  /\ key \in [Nodes -> Keys \cup {Null}]
  /\ removed \subseteq Nodes /\ m_is_iterating \in BOOLEAN
  /\ loops \in Seq(Loop) /\ Len(loops) <= MaxLoops

\* The list and the table hold the same pairs, whatever blocks do to the hash: the
\* first node is of the table, and links lead from node to node of it and back.
LinksAgree ==
  /\ m_key_list = Null <=> InTable = {}
  /\ m_key_list # Null => m_key_list \in InTable
  /\ \A n \in InTable : /\ n \notin removed
                        /\ next[n] \in InTable /\ prev[n] \in InTable
                        /\ prev[next[n]] = n /\ next[prev[n]] = n

\* The list is one ring: a walk from the first node finds every pair.
OneRing == m_key_list # Null => Following({m_key_list}, next) = InTable

\* The state is well-formed, and table and list are two views of the same pairs.
TableIsTheRing == HashTypeOK /\ LinksAgree /\ OneRing

\* put refuses new keys only while an each is on, however the loops before ended.
FlagMeansEach == m_is_iterating => \E i \in DOMAIN loops : loops[i].method = "each"

\* A loop whose list was not dropped calls its block only for pairs that are there,
\* though any pair, also the one it is at, is deleted under it.
VisitsThePresent ==
  [][\A i \in DOMAIN loops' :
       /\ loops'[i].at_block /\ ~loops'[i].dropped
       /\ i \in DOMAIN loops => ~loops[i].at_block
       => loops'[i].at \in InTable']_hashVars

\* It calls it for every pair that is there from its begin to its end.
NothingSkipped == [][IterationEnds => Inner.dropped \/ Inner.owed = {}]_hashVars

\* In a round it calls it once for each of them.  Another round begins, and what it was
\* called for is forgotten, when the list is dropped (rehash, clear, replace) or the last
\* node is deleted while the iterator is at it, or at removed nodes that led to it: there
\* operator++ goes on to the first node, and calls the block again for pairs it had.
EachPairOnce ==
  [][Increment /\ StopAt(next[Inner.at]) => next[Inner.at] \notin Inner.seen]_hashVars

\* A loop calls its block for all pairs that stay, and once in a round.
VisitsAllOnce == NothingSkipped /\ EachPairOnce

===============================================================================
