---------------------------- MODULE Autocorrect ----------------------------
\* The autocorrect dictionary: entries laid out as the trie the firmware walks
\* from the newest character back, and the walk that reads them again.  A
\* character is its code; a node of the trie is the reversed typo that leads to
\* it.
EXTENDS BlobWriter

\* A lower-case letter, a digit, an apostrophe or a dash; a correction may be
\* in capitals too.
AUTOCORRECT_MAX_TYPO == 24
TypoAlphabet == 97..122 \cup 48..57 \cup {39, 45}
ReplAlphabet == TypoAlphabet \cup 65..90

HDR_MATCH == 128
KIND_BRANCH == 1

\* A typo is keyed in lower case; the alphabets here have a single case.
Reversed(e) == Reverse(e.typo)
EndsAt(entries, node) == \E e \in ToSet(entries) : Reversed(e) = node
EntryAt(entries, node) == CHOOSE e \in ToSet(entries) : Reversed(e) = node

\* buildTrie refuses what the device would reject or never match.
Encodable(entries) ==
    /\ \A e \in ToSet(entries) :
          /\ e.typo # <<>> /\ ToSet(e.typo) \subseteq TypoAlphabet
          /\ ToSet(e.correction) \subseteq ReplAlphabet
          /\ Len(e.typo) <= AUTOCORRECT_MAX_TYPO /\ Len(e.correction) <= 255
    /\ \A i, j \in DOMAIN entries : entries[i].typo = entries[j].typo => i = j

Children(entries, node) ==
    {Reversed(e)[Len(node) + 1] :
        e \in {x \in ToSet(entries) : IsStrictPrefix(node, Reversed(x))}}

\* A run of single children ends at a match or where the trie fans out or stops.
RECURSIVE ChainTail(_, _)
ChainTail(entries, node) ==
    LET next == Append(node, CHOOSE ch \in Children(entries, node) : TRUE)
    IN  IF EndsAt(entries, next) \/ Cardinality(Children(entries, next)) # 1
        THEN next ELSE ChainTail(entries, next)

\* Parents before children, so that every branch points forward.  off is where
\* the node's header goes.
Match(node, repl) == Bytes(<<Len(node), Len(repl)>> \o repl)
NodeHead(entries, node, kids) ==
    IF EndsAt(entries, node)
    THEN U8((IF Len(kids) = 1 THEN 0 ELSE KIND_BRANCH) + HDR_MATCH)
         \o Match(node, EntryAt(entries, node).correction)
    ELSE U8(IF Len(kids) = 1 THEN 0 ELSE KIND_BRANCH)

RECURSIVE Emit(_, _, _), Fan(_, _, _, _, _)

\* The links of a branch and the bodies they point to; the first goes to base.
Fan(entries, node, kids, base, st) ==
    LET at == base + Len(st.bodies)
        child == Append(node, Head(kids))
    IN  IF kids = <<>> THEN st.links \o <<0>> \o st.bodies
        ELSE Fan(entries, node, Tail(kids), base,
                 [links |-> st.links \o <<Head(kids)>> \o U16(at),
                  bodies |-> st.bodies \o Emit(entries, child, at)])

RunTo(entries, tail, off, run) == run \o Emit(entries, tail, off + Len(run))

EmitNode(entries, node, off, kids, head) ==
    LET tail == ChainTail(entries, node)
    IN  IF Len(kids) = 1
        THEN RunTo(entries, tail, off, head \o SubSeq(tail, Len(node) + 1, Len(tail)) \o <<0>>)
        ELSE head \o Fan(entries, node, kids, off + Len(head) + 3 * Len(kids) + 1,
                         [links |-> <<>>, bodies |-> <<>>])

EmitKids(entries, node, off, kids) ==
    EmitNode(entries, node, off, kids, NodeHead(entries, node, kids))
Emit(entries, node, off) ==
    EmitKids(entries, node, off, SetToSortSeq(Children(entries, node), <))

\* An empty table clears the device's dictionary.
EncodeDictionary(entries) == IF entries = <<>> THEN <<>> ELSE Emit(entries, <<>>, 0)

----------------------------------------------------------------------------
\* readAutocorrect: every read is checked against the end of the table.  A walk
\* answers the entries it met and whether it ran off the end, which gives up the
\* whole dictionary; a branch that points backwards only ends its own list.
Walked(cut, out) == [cut |-> cut, out |-> out]
Cut == Walked(TRUE, <<>>)
Then(w, next) ==
    IF w.cut \/ next.cut THEN Cut ELSE Walked(FALSE, w.out \o next.out)

Has(b, o, n) == o + n <= Len(b)
HasNul(b, o) == \E z \in o + 1..Len(b) : b[z] = 0
Nul(b, o) == Min({z \in o + 1..Len(b) : b[z] = 0}) - 1

RECURSIVE WalkNode(_, _, _), WalkBranch(_, _, _, _)

WalkBranch(b, off, at, path) ==
    LET child == b[at + 2] + 256 * b[at + 3]
    IN  CASE ~Has(b, at, 1) -> Cut
          [] b[at + 1] = 0 -> Walked(FALSE, <<>>)
          [] ~Has(b, at, 3) -> Cut
          [] child <= off -> Walked(FALSE, <<>>)
          [] OTHER -> Then(WalkNode(b, child, Append(path, b[at + 1])),
                           WalkBranch(b, off, at + 3, path))

WalkNode(b, off, path) ==
    LET match == b[off + 1] >= HDR_MATCH
        repl == b[off + 3]
        at == IF match THEN off + 3 + repl ELSE off + 1
        here == IF match THEN <<[typo |-> Reverse(path),
                                 correction |-> SubSeq(b, off + 4, at)]>>
                ELSE <<>>
        rest == CASE b[off + 1] % 2 = KIND_BRANCH -> WalkBranch(b, off, at, path)
                  [] ~HasNul(b, at) -> Cut
                  [] OTHER -> WalkNode(b, Nul(b, at) + 1,
                                       path \o SubSeq(b, at + 1, Nul(b, at)))
    IN  IF ~Has(b, off, 1) \/ (match /\ ~Has(b, off, 3)) \/ ~Has(b, at, 0) THEN Cut
        ELSE Then(Walked(FALSE, here), rest)

\* An empty table is a dictionary without entries.
ReadAutocorrect(b) == IF b = <<>> THEN <<>> ELSE WalkNode(b, 0, <<>>).out
=============================================================================
