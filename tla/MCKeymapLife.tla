---------------------------- MODULE MCKeymapLife ----------------------------
\* Keyboards small enough to save thousands of times, each with the actions and
\* the sections one part of the compiler handles.
EXTENDS KeymapLife

Press(k) == KeyPress(k, {})
Mods(k, mods) == KeyPress(k, mods)
On(mode, n) == [type |-> "layer", mode |-> mode, layer |-> LayerName(n)]
Hold(k, hold) == [type |-> "tap_hold", tap |-> [key |-> k, mods |-> {}], hold |-> hold]
HoldLayer(k, n) == Hold(k, [type |-> "layer", layer |-> LayerName(n)])
HoldMod(k, m) == Hold(k, [type |-> "modifier", modifier |-> m])
OfType(t) == [type |-> t]

Board(rows) ==
    [layers |-> [i \in DOMAIN rows |-> [name |-> LayerName(i - 1), bindings |-> rows[i],
                                        encoders |-> <<>>]],
     keys |-> Len(rows[1]), defaults |-> [tappingTermMs |-> 200], combos |-> <<>>,
     tapDances |-> <<>>, modMorphs |-> <<>>, holdTaps |-> <<>>, macros |-> <<>>,
     conditionalLayers |-> <<>>, keyOverrides |-> <<>>, leaderSequences |-> <<>>,
     actionBindings |-> <<>>, perKey |-> <<>>, node |-> <<>>]

\* Layers, tap-holds with their timing, and the timing of the board.
LayerBoard ==
    [Board(<<<<Mods("A", {0, 1}),
               HoldLayer("B", 1) @@ [flavor |-> "tap_preferred", tappingTermMs |-> 180,
                                     holdTriggerKeyPositions |-> <<1>>],
               On("to", 1), On("momentary", 1)>>,
             <<On("toggle", 0), OfType("transparent"), OfType("none"),
               HoldMod("A", 1) @@ [retroTap |-> TRUE, quickTapMs |-> 90,
                                   requirePriorIdleMs |-> 30]>>>>) EXCEPT
        !.defaults = [tappingTermMs |-> 170, releaseDebounceMs |-> 5, capsWordIdleMs |-> 9],
        !.combos = <<[name |-> "esc", keys |-> <<0, 1>>, action |-> Press("ESC"),
                      layers |-> <<LayerName(1)>>]>>]

\* Macros, a plain tap dance and one that nests a mod-morph.
CompositeBoard ==
    [Board(<<<<[type |-> "tap_dance", ref |-> "twice"], [type |-> "tap_dance", ref |-> "deep"],
               [type |-> "macro", ref |-> "hi"], OfType("grave_escape")>>>>) EXCEPT
        !.tapDances = <<[id |-> "twice", tappingTermMs |-> 150,
                         taps |-> <<[count |-> 1, action |-> Press("A")],
                                    [count |-> 2, action |-> Press("B")]>>],
                        [id |-> "deep",
                         taps |-> <<[count |-> 1, action |-> Press("B")],
                                    [count |-> 3, action |-> [type |-> "mod_morph",
                                                              ref |-> "shifted"]]>>]>>,
        !.modMorphs = <<[id |-> "shifted", mods |-> {1, 5}, keepMods |-> {1},
                         bindings |-> <<Press("A"), [type |-> "macro", ref |-> "wait"]>>]>>,
        !.macros = <<[id |-> "hi", steps |-> <<[type |-> "text", text |-> <<"a", "A">>],
                                               [type |-> "tap", key |-> "B"]>>],
                     [id |-> "wait", steps |-> <<[type |-> "press", key |-> "LSHIFT"],
                                                 [type |-> "wait", ms |-> 300],
                                                 [type |-> "pause_for_release"],
                                                 [type |-> "release", key |-> "LSHIFT"]>>]>>]

\* Every section that hangs off the layers.
SectionBoard ==
    [Board(<<<<Press("A"), Press("B")>>, <<OfType("transparent"), Press("MUTE")>>>>) EXCEPT
        !.layers[1].encoders = <<Absent, [cw |-> Press("A"), ccw |-> Press("MUTE"),
                                          press |-> OfType("caps_word")]>>,
        !.conditionalLayers = <<[ifLayers |-> <<LayerName(0), LayerName(1)>>,
                                 thenLayer |-> LayerName(1)]>>,
        !.keyOverrides = <<[trigger |-> "ESC", triggerMods |-> {1}, replacement |-> "GRAVE",
                            suppressedMods |-> {1}, layers |-> <<LayerName(1)>>]>>,
        !.leaderSequences = <<[sequence |-> <<"A", "B">>, action |-> Press("ESC")]>>,
        !.actionBindings = <<[position |-> 1,
                              action |-> [kind |-> "keyboard", usage |-> 4, mods |-> 2]]>>]

\* The sections of the node, its lights and its dictionary.
NodeBoard ==
    [Board(<<<<Press("A"), [type |-> "leader"]>>>>) EXCEPT
        !.perKey = [p \in {1} |-> <<255, 0, 7>>],
        !.node = [personality |-> "keyboard", role |-> "coordinator", forwardMode |-> "physical",
                  mouse |-> [cpi |-> 800, accel |-> <<<<1, 100>>>>],
                  cluster |-> <<[uid |-> <<1, 2>>, positionBase |-> 300, rows |-> 1,
                                 cols |-> 2, pointerBase |-> 4]>>,
                  linkProfile |-> [profile |-> "gaming",
                                   overrides |-> <<[knob |-> 1, value |-> 70000]>>]]]
    @@ [autocorrect |-> <<[typo |-> <<97, 98, 99>>, correction |-> <<65>>],
                          [typo |-> <<98, 99>>, correction |-> <<97>>]>>]

\* The actions no editor kind shows.
RichBoard ==
    Board(<<<<[type |-> "output", action |-> "bluetooth", profile |-> 2],
              [type |-> "lighting", action |-> "color", target |-> "backlight",
               hue |-> 100, saturation |-> 50, brightness |-> 25],
              [type |-> "lighting", action |-> "set", target |-> "underglow", level |-> 70],
              [type |-> "sticky_key", key |-> "LSHIFT"], [type |-> "sticky_key", key |-> "A"],
              [type |-> "key_toggle", key |-> "B"],
              [type |-> "auto_shift", key |-> "B", mods |-> {1}],
              [type |-> "layer_mod", layer |-> LayerName(0), mods |-> {2}],
              [type |-> "tap_toggle", layer |-> LayerName(0)],
              [type |-> "ext_power", action |-> "on"], [type |-> "reset"],
              [type |-> "mouse_key", button |-> "mb4"],
              [type |-> "mouse_scroll", direction |-> "left"],
              [type |-> "gui_lock", action |-> "toggle"],
              [type |-> "unicode", codepoint |-> 128], [type |-> "macro_play", slot |-> 2],
              [type |-> "peripheral", kind |-> "midi", code |-> 7], Press("POWER")>>>>)

MCKeyboards == {LayerBoard, CompositeBoard, SectionBoard, NodeBoard, RichBoard}

MCKeyChoices ==
    {TransparentKey, NeutralKey("kp", <<"A">>), NeutralKey("mt", <<"B", 1>>),
     NeutralKey("mo", <<0>>), NeutralKey("lt", <<"A", 1>>), NeutralKey("macro", <<0>>),
     NeutralKey("td", <<1>>)}
MCMacroEdits == {<<[kind |-> "tap", keycode |-> 4], [kind |-> "delay", ms |-> 20]>>}
MCTapEntries == {[onTap |-> 5, onDoubleTap |-> 0, tappingTerm |-> 0],
                 [onTap |-> 0, onDoubleTap |-> 0, tappingTerm |-> 200]}
MCMorphPatches == {[keepMods |-> {}]}
MCConditionalLists == {<<>>, <<[ifLayers |-> <<LayerName(0)>>, thenLayer |-> "Nav"]>>}
MCDictionaries == {<<>>, <<[typo |-> <<99>>, correction |-> <<97>>]>>}
MCFieldPatches == {<<"defaults", "macroDefaultTapMs", 40>>, <<"node", "role", "follower">>}
MCTitles == {"Nav"}
=============================================================================
