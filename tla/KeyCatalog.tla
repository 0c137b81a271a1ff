----------------------------- MODULE KeyCatalog -----------------------------
\* The vocabulary the configuration conversions share: a small part of the key
\* catalog with its HID usages, the modifiers and the reading of optional
\* fields.  A key is named by its canonical id, shortened.
EXTENDS Integers, FiniteSets, SequencesExt, TLC

\* An optional field of a record: what it holds, or d when it was left out.
Opt(r, f, d) == IF f \in DOMAIN r THEN r[f] ELSE d

\* The record r with the field f, or r alone when the field is not wanted.
With(r, f, wanted, v) ==
    IF wanted THEN (f :> v) @@ r ELSE r

\* The fields of r that are in F, and those that are not.
Pick(r, F) == Restrict(r, F \cap DOMAIN r)
Drop(r, F) == Restrict(r, DOMAIN r \ F)

\* The sequence s with v at place i.
Put(s, i, v) == (i :> v) @@ s

\* What F gives for each element, one after the other; as a tuple it is computed once.
Each(s, F(_)) == FlattenSeq(<<>> \o [i \in DOMAIN s |-> F(s[i])])

HID_PAGE_KEYBOARD == 7
HID_PAGE_CONSUMER == 12
HID_PAGE_SYSTEM == 1

\* Canonical id to HID usage; FN_LOCK stands for the catalog's entries with no
\* HID usage at all, and CONTACT for a page the wire has no behaviour for.
HidUsage ==
    [A |-> <<7, 4>>, B |-> <<7, 5>>, ESC |-> <<7, 41>>, BSPC |-> <<7, 42>>,
     GRAVE |-> <<7, 53>>, PAUSE |-> <<7, 72>>, LEFT |-> <<7, 80>>,
     KP_PLUS |-> <<7, 87>>, KB_POWER |-> <<7, 102>>, LCTRL |-> <<7, 224>>,
     LSHIFT |-> <<7, 225>>, RCTRL |-> <<7, 228>>, RGUI |-> <<7, 231>>,
     PIP |-> <<12, 103>>, REPEAT |-> <<12, 188>>, MUTE |-> <<12, 226>>,
     PLAY_PAUSE |-> <<12, 205>>, POWER |-> <<1, 129>>,
     CONTACT |-> <<13, 1>>]

OneOf(S, none) == IF S = {} THEN none ELSE CHOOSE x \in S : TRUE

\* The key of a usage, or none: what HID_USAGE_DECODE answers.
NoKey == "no-key"
KeyAt(page, usage) == OneOf({k \in DOMAIN HidUsage : HidUsage[k] = <<page, usage>>}, NoKey)

\* Modifiers are numbered as the bits of the HID modifier byte.
Modifiers == 0..7
ModUsage(i) == 224 + i
Mask(mods) == MapThenSumSet(LAMBDA i : 2^i, mods)
BitSet(x, i) == (x \div 2^i) % 2 = 1
MaskToMods(x) == {i \in Modifiers : BitSet(x, i)}

\* The characters a text macro types here, with their usage and whether Shift
\* is held; any other character has none.
CharUsage ==
    [a |-> [usage |-> 4, shift |-> FALSE], A |-> [usage |-> 4, shift |-> TRUE],
     b |-> [usage |-> 5, shift |-> FALSE]]
=============================================================================
