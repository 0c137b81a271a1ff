------------------------------ MODULE KeyNames ------------------------------
\* How a document spells its keys.  A spelling is a word, written here in the
\* folded form it is compared in (one case, separators dropped); a binding may
\* put modifiers in front of it, "Ctrl+Shift+C".
EXTENDS KeyCatalog

\* Modifiers, by the number of their bit; sets of them are written in this order.
MODIFIERS == <<"LEFT_CTRL", "LEFT_SHIFT", "LEFT_ALT", "LEFT_GUI",
               "RIGHT_CTRL", "RIGHT_SHIFT", "RIGHT_ALT", "RIGHT_GUI">>
ModOf(name) == SelectInSeq(MODIFIERS, LAMBDA m : m = name) - 1
ModNames(mods) == Each(SetToSortSeq(mods, <), LAMBDA i : <<MODIFIERS[i + 1]>>)
ModsOf(names) == {ModOf(n) : n \in ToSet(names)}

\* The spellings of each of them; a bare one is the left.
ModifierWords ==
    <<{"leftctrl", "lctrl", "lctl", "lc", "ctrl", "control", "ctl"},
      {"leftshift", "lshift", "lsft", "ls", "shift", "sft"},
      {"leftalt", "lalt", "la", "alt", "opt", "option"},
      {"leftgui", "lgui", "lg", "gui", "cmd", "command", "win", "meta", "super"},
      {"rightctrl", "rctrl", "rctl", "rc"}, {"rightshift", "rshift", "rsft", "rs"},
      {"rightalt", "ralt", "ra", "altgr"}, {"rightgui", "rgui", "rg"}>>
FriendlyMod == <<"ctrl", "shift", "alt", "gui", "rctrl", "rshift", "ralt", "rgui">>

\* A modifier by its name or one of its spellings; any other word as it stands.
IsModifier(name) == name \in ToSet(MODIFIERS)
IsModifierWord(w) == \E i \in DOMAIN ModifierWords : w \in ModifierWords[i]
ResolveModifier(w) ==
    IF IsModifierWord(w) THEN MODIFIERS[SelectInSeq(ModifierWords, LAMBDA s : w \in s)] ELSE w

\* The catalog's entries in its order: the label a key shows, whether it is too
\* long to be written, the aliases people write, those of a firmware and the name.
Catalog(rows) ==
    [i \in DOMAIN rows |->
        [id |-> rows[i][1], label |-> rows[i][2], human |-> rows[i][3],
         firmware |-> rows[i][4], name |-> rows[i][5]]]
CATALOG == Catalog(
    <<<<"A", "a", <<>>, "kca", "keyboarda">>, <<"B", "b", <<>>, "kcb", "keyboardb">>,
      <<"ESC", "esc", <<"escape">>, "kcesc", "escape">>,
      <<"BSPC", "<-", <<"backspace", "bspc">>, "kcbspc", "backspace">>,
      <<"GRAVE", "backtick", <<"grave">>, "kcgrv", "keyboardgraveaccentandtilde">>,
      <<"PAUSE", "paus", <<"pausebreak">>, "kcpaus", "pause">>,
      <<"LEFT", "<-", <<"leftarrow", "left">>, "kcleft", "keyboardleftarrow">>,
      <<"KP_PLUS", "+", <<"kpplus">>, "kcppls", "keypadplus">>,
      <<"KB_POWER", "power", <<"kpower", "kpwr">>, "kckbpower", "power">>,
      <<"FN_LOCK", "fnlock", <<>>, "", "fnlock">>,
      <<"CONTACT", "contact", <<>>, "", "contactindex">>,
      <<"PIP", "pictureinpicturetoggle", <<"cpip">>, "", "pictureinpicturetoggle">>,
      <<"REPEAT", "repeat", <<>>, "", "repeat">>, <<"MUTE", "mute", <<>>, "", "mute">>,
      <<"PLAY_PAUSE", ">||", <<"playpause", "pause", "play">>, "kcmply", "playpause">>,
      <<"POWER", "power", <<>>, "", "systempowerdown">>,
      <<"LCTRL", "lctl", <<"lctrl">>, "kclctl", "leftcontrol">>,
      <<"LSHIFT", "lsft", <<"lshift">>, "kclsft", "leftshift">>,
      <<"RCTRL", "rctl", <<"rctrl">>, "kcrctl", "rightcontrol">>,
      <<"RGUI", "rgui", <<"rwin">>, "kcrgui", "rightgui">>>>)
LongLabels == {"pictureinpicturetoggle"}

\* Whoever holds a spelling more strongly has it: an id before an alias, an
\* alias before a label, a label before a name, and of two entries the first.
Claims(e) == <<{e.id}, ToSet(e.human) \cup ({e.firmware} \ {""}), {e.label}, {e.name}>>
Holder(catalog, w, rank) == SelectInSeq(catalog, LAMBDA e : w \in Claims(e)[rank])
Strongest(catalog, w, ranks) ==
    IF ranks = {} THEN NoKey ELSE catalog[Holder(catalog, w, Min(ranks))].id
Resolve(catalog, w) ==
    Strongest(catalog, w, {rank \in 1..4 : Holder(catalog, w, rank) # 0})
ResolveKeycode(w) == Resolve(CATALOG, w)
IsKnownKeycode(w) == ResolveKeycode(w) # NoKey

\* The spelling a key is written with.
Friendly(e) == IF e.label \in LongLabels /\ e.human # <<>> THEN e.human[1] ELSE e.label
FriendlyName(id) == Friendly(SelectSeq(CATALOG, LAMBDA e : e.id = id)[1])

----------------------------------------------------------------------------
\* A key written in a binding.  One spelling holds the joining sign itself: it
\* falls apart, and what is left counts.
Token(mods, name) == [type |-> "token", mods |-> mods, name |-> name]
IsToken(a) == a.type = "token"

JoiningSign == "+"
Unparsed == [key |-> NoKey, mods |-> {}]
ParseParts(words, key) ==
    IF key = NoKey \/ \E m \in ToSet(words) : ~IsModifierWord(m) THEN Unparsed
    ELSE [key |-> key, mods |-> ModsOf(Each(words, LAMBDA m : <<ResolveModifier(m)>>))]
ParseKeyToken(t) ==
    LET parts == t.mods \o (IF t.name = JoiningSign THEN <<>> ELSE <<t.name>>)
        joined == t.mods # <<>> \/ t.name = JoiningSign
    IN  IF parts = <<>> \/ (joined /\ Len(parts) < 2) THEN Unparsed
        ELSE ParseParts(Front(parts), ResolveKeycode(Last(parts)))
IsKnownKeyToken(t) == ParseKeyToken(t).key # NoKey
=============================================================================
