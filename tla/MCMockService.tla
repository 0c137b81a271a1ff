---------------------------- MODULE MCMockService ----------------------------
\* Small documents that hold, between them, every section the builder writes.
EXTENDS MockService

Key(w) == Token(<<>>, w)
At0(x, y) == [x |-> Unit * x, y |-> Unit * y]
Doc(keyboard, rows) ==
    [schemaVersion |-> 1, target |-> "remappr", defaults |-> <<>>, keyboard |-> keyboard,
     layers |-> rows, combos |-> <<>>, tapDances |-> <<>>, macros |-> <<>>,
     modMorphs |-> <<>>, holdTaps |-> <<>>, conditionalLayers |-> <<>>, keyOverrides |-> <<>>,
     leaderSequences |-> <<>>, actionBindings |-> <<>>, node |-> <<>>]
OnLayer(mode, name) == [type |-> "layer", mode |-> mode, layer |-> name]
Board(n) == [keys |-> [i \in 1..n |-> At0(i - 1, 0)]]

\* Layers, a knob, a wired matrix, and the sections that name layers and keys.
LayerDoc ==
    [Doc(Board(3) @@ [encoders |-> <<At0(9, 0)>>,
                      hardware |-> [kscan |-> [type |-> "matrix", rowGpios |-> <<1>>,
                                               colGpios |-> <<2, 3, 4>>,
                                               diodeDirection |-> "row2col"],
                                    transform |-> [rows |-> 1, columns |-> 3,
                                                   map |-> <<<<0, 0>>, <<0, 1>>, <<0, 2>>>>]]],
         <<[name |-> "base",
            bindings |-> <<Key("a"), [type |-> "mod_tap", tap |-> Key("escape"),
                                      mod |-> "LEFT_CTRL"], OnLayer("momentary", "nav")>>,
            encoders |-> <<[cw |-> Key("a"), ccw |-> Key("b"), press |-> Key("mute")]>>],
           [name |-> "nav",
            bindings |-> <<[type |-> "caps_word"], Key("backspace")>>]>>) EXCEPT
        !.defaults = [tappingTermMs |-> 170, releaseDebounceMs |-> 5],
        !.combos = <<[name |-> "esc", keys |-> <<0, 2>>, action |-> Key("escape"),
                      layers |-> <<"nav">>]>>,
        !.conditionalLayers = <<[ifLayers |-> <<"base">>, thenLayer |-> "nav"]>>]

\* Definitions of every kind and the rich actions of the layers.
RichDoc ==
    [Doc(Board(4),
         <<[name |-> "base",
            bindings |-> <<[type |-> "tap_dance", ref |-> "td"], [type |-> "mod_morph", ref |-> "mm"],
                           Token(<<"ctrl">>, "a"),
                           [type |-> "tap_hold", tap |-> Key("b"),
                            hold |-> [type |-> "modifier", modifier |-> "RIGHT_GUI"],
                            quickTapMs |-> 90, retroTap |-> TRUE]>>],
           [name |-> "fn",
            bindings |-> <<[type |-> "lighting", target |-> "underglow", action |-> "toggle"],
                           [type |-> "macro", ref |-> "hi"],
                           [type |-> "transparent"], OnLayer("to", "base")>>]>>) EXCEPT
        !.combos = <<[name |-> "combo_0", keys |-> <<0, 3>>, timeoutMs |-> 40, layers |-> <<"fn">>,
                      action |-> [type |-> "layer_tap", tap |-> Key("a"), layer |-> "fn",
                                  tappingTermMs |-> 180]],
                     [name |-> "hr", keys |-> <<0, 1>>,
                      action |-> [type |-> "hold_tap", ref |-> "hrm", holdParam |-> "lctrl",
                                  tapParam |-> "b"]]>>,
        !.tapDances = <<[id |-> "td", tappingTermMs |-> 150,
                         taps |-> <<[count |-> 1, action |-> Key("a")],
                                    [count |-> 2, action |-> [type |-> "sticky_key",
                                                              key |-> "lshift"]]>>]>>,
        !.macros = <<[id |-> "hi", steps |-> <<[type |-> "tap", key |-> "a"],
                                               [type |-> "wait", ms |-> 10],
                                               [type |-> "press", key |-> "lshift"],
                                               [type |-> "text", text |-> <<"b">>],
                                               [type |-> "release", key |-> "lshift"]>>]>>,
        !.modMorphs = <<[id |-> "mm", mods |-> <<"LEFT_SHIFT", "RIGHT_SHIFT">>,
                         keepMods |-> <<"LEFT_SHIFT">>,
                         bindings |-> <<Key("a"), Key("b")>>]>>,
        !.holdTaps = <<[id |-> "hrm", flavor |-> "balanced", bindings |-> <<"kp", "kp">>,
                        tappingTermMs |-> 220, holdTriggerKeyPositions |-> <<1>>]>>,
        !.keyOverrides = <<[trigger |-> "escape", triggerMods |-> <<"LEFT_SHIFT">>,
                            replacement |-> "grave", layers |-> <<"base">>]>>,
        !.leaderSequences = <<[sequence |-> <<"a", "b">>, action |-> [type |-> "reset"]]>>]

\* A document of the second version, without a keyboard.
CompactDoc ==
    [Drop(Doc(Board(1), <<>>), {"keyboard"}) EXCEPT
        !.schemaVersion = 2,
        !.layers = <<[name |-> "base",
                      keys |-> <<Key("repeat"), Verb("mo", "fn", <<>>),
                                 [type |-> "untyped", tap |-> Key("a"), hold |-> Word("lgui"),
                                  term |-> 180]>>],
                     [name |-> "fn", keys |-> <<Key("xxx"), Key("___"),
                                                Verb("td", "two", <<>>)>>]>>,
        !.tapDances = <<[id |-> "two", taps |-> [n \in {1, 2} |-> Key("b")]]>>,
        !.combos = <<[keys |-> <<0, 1>>, do |-> Bare("capsword")]>>,
        !.conditionalLayers = <<("if" :> <<"base">>) @@ ("then" :> "fn")>>]

\* A combo that holds by position: what the short form has no word for.
PositionalDoc ==
    [Doc(Board(2), <<[name |-> "base", bindings |-> <<Key("a"), Key("b")>>]>>) EXCEPT
        !.combos = <<[name |-> "hold", keys |-> <<0, 1>>, layers |-> <<"base">>,
                      action |-> [type |-> "mod_tap", tap |-> Key("a"), mod |-> "LEFT_CTRL",
                                  holdTriggerKeyPositions |-> <<1>>]]>>]

\* Refused: a layer that is not there, a key without a name.
BadLayerDoc == Doc(Board(1), <<[name |-> "base", bindings |-> <<OnLayer("to", "gone")>>]>>)
BadKeyDoc == Doc(Board(1), <<[name |-> "base", bindings |-> <<Key("hyper")>>]>>)

\* What is exported besides: a board in two halves with pins and peripherals, and
\* the behaviours that have nodes and options.
Lit(target, action) == [type |-> "lighting", target |-> target, action |-> action]
SplitBoard ==
    [id |-> "wing", name |-> "Wing", split |-> TRUE, controller |-> [board |-> "nice_nano_v2", shield |-> "wing_left"],
     keys |-> <<At0(0, 0), At0(1, 0), At0(5, 0), At0(6, 0), At0(0, 1)>>,
     pins |-> [rows |-> <<<<"P", 1>>, <<"P", 40>>>>, cols |-> <<<<"D", 3>>, BlankPin, <<"P", 5>>>>],
     hardware |-> [backlightPwm |-> [instance |-> "pwm0", channel |-> 0, pin |-> <<0, 6>>],
                   ws2812 |-> [spi |-> "spi3", chainLength |-> 6, dataPin |-> BlankPin],
                   extPowerCtrl |-> [controlGpio |-> <<0, 13>>], studioAcm |-> TRUE],
     firmware |-> <<"zmk", "via">>, encoders |-> <<At0(9, 0)>>]
SplitDoc ==
    [Doc(SplitBoard,
         <<[name |-> "base",
            bindings |-> <<[type |-> "macro", ref |-> "say"],
                           [type |-> "macro", ref |-> "say", param |-> "a"],
                           [type |-> "tap_dance", ref |-> "t-d"],
                           [type |-> "tap_hold", tap |-> Key("b"), flavor |-> "balanced",
                            hold |-> [type |-> "layer", layer |-> "fn"]],
                           [type |-> "output", action |-> "bluetooth", profile |-> 1]>>,
            encoders |-> <<[cw |-> [type |-> "mouse_scroll", direction |-> "up"],
                            ccw |-> Key("b")]>>],
           [name |-> "fn",
            bindings |-> <<[type |-> "soft_off"], [type |-> "ext_power", action |-> "toggle"],
                           Lit("per_key", "toggle"), [type |-> "auto_layer", layer |-> "fn"]>>,
            encoders |-> <<[cw |-> Key("a"), ccw |-> Key("b")]>>]>>) EXCEPT
        !.target = "zmk",
        !.macros = <<[id |-> "say", steps |-> <<[type |-> "param"], [type |-> "tap", key |-> "b"]>>]>>,
        !.tapDances = <<[id |-> "t-d", taps |-> <<[count |-> 2, action |-> Lit("backlight", "set") @@ [level |-> 9]],
                                                 [count |-> 1, action |-> OnLayer("to", "fn")]>>,
                         hold |-> [type |-> "layer", layer |-> "fn"]]>>]

\* A board of its own pins, with knobs and a slider among its keys.
PadBoard ==
    [id |-> "Pad", controller |-> [board |-> "pro_micro"], firmware |-> <<"vial">>,
     keys |-> <<At0(0, 0) @@ [pin |-> <<"D", 2>>], At0(1, 0) @@ [element |-> "encoder", pin |-> <<"D", 3>>],
                At0(1, 2) @@ [element |-> "encoder", pin |-> <<"D", 14>>],
                At0(0, 3) @@ [element |-> "slider", option |-> <<0, 1>>, w |-> 2 * Unit]>>,
     vial |-> [uid |-> <<1, 2, 3, 4, 5, 6, 7, 8>>, unlockKeys |-> <<<<0, 0>>, <<9, 9>>>>],
     lighting |-> [backlight |-> [brightness |-> 40]], firmwareConfig |-> [pointing |-> FALSE],
     layoutOptions |-> <<[label |-> "bottom", choices |-> <<"wide", "narrow">>]>>]
PadDoc ==
    [Doc(PadBoard,
         <<[name |-> "base",
            bindings |-> <<[type |-> "mouse_key", button |-> "left"], Key("a"),
                           [type |-> "key_toggle", key |-> "b"]>>,
            encoderBindings |-> (1 :> [cw |-> [type |-> "tap_hold", tap |-> Key("a"), tappingTermMs |-> 150,
                                               hold |-> [type |-> "modifier", modifier |-> "LEFT_SHIFT"]],
                                       ccw |-> [type |-> "reset"]]),
            sliderBindings |-> (3 :> [map |-> "custom", min |-> 0, max |-> 9,
                                      action |-> Lit("underglow", "color")
                                                 @@ [hue |-> 1, saturation |-> 2, brightness |-> 3]])],
           [name |-> "fn", bindings |-> <<Key("b")>>]>>) EXCEPT !.target = "qmk"]

\* Timings that differ and agree, beside a macro of another name than the nodes that
\* are made for them have, and one of the same.
Timed(key, term) ==
    [type |-> "tap_hold", tap |-> Key(key), tappingTermMs |-> term,
     hold |-> [type |-> "modifier", modifier |-> "LEFT_CTRL"]]
TimedDoc(name) ==
    [Doc(Board(3), <<[name |-> "base", bindings |-> <<Timed("a", 150), Timed("b", 200), Timed("b", 150)>>]>>)
     EXCEPT !.target = "zmk", !.macros = <<[id |-> name, steps |-> <<[type |-> "tap", key |-> "b"]>>]>>,
            !.combos = <<[name |-> "esc", keys |-> <<0, 2>>, action |-> Timed("a", 200)]>>]

MCDocuments ==
    {LayerDoc, RichDoc, CompactDoc, PositionalDoc, BadLayerDoc, BadKeyDoc, SplitDoc, PadDoc, TimedDoc("say"),
     TimedDoc("ht_0")}
MCAllowance(doc) ==
    CASE doc \in {LayerDoc, RichDoc} -> MaxEdits [] doc = TimedDoc("ht_0") -> 0 [] OTHER -> 1

\* Names by their parts as labels; most are names of files already.
MCSanitize(name) ==
    CASE name = "t-d" -> <<"t_d">> [] name = "ht_0" -> <<"ht", 0>> [] OTHER -> <<name>>
MCSlug(name) == IF name = "Pad" THEN "pad" ELSE name
MCWithoutSide(name) == IF name = "wing_left" THEN "wing" ELSE name

MCKeyChoices ==
    {TransparentForm, Kind("kp") @@ [key |-> "LEFT"], Kind("kp") @@ [key |-> "KP_PLUS"],
     Kind("mt") @@ [key |-> "B", mod |-> 1], Kind("mo") @@ [layer |-> 1],
     Kind("rgb_ug") @@ [cmd |-> 3], Kind("mkp")}
BoardKey(x, y, col) == At0(x, y) @@ [w |-> Unit, h |-> Unit, r |-> 0, matrix |-> <<0, col>>]
BoardDef(keys, encoders, columns) ==
    [name |-> "def", rows |-> 1, columns |-> columns, keys |-> keys, encoders |-> encoders]
MCBoardDefs == {BoardDef(<<BoardKey(0, 0, 0), BoardKey(1, 0, 1)>>, <<>>, 2),
                BoardDef([i \in 1..5 |-> BoardKey(i, 0, i)], <<At0(0, 3), At0(1, 3)>>, 6)}
MCPatches == {<<"defaults", "tappingTermMs", <<240>>>>, <<"defaults", "tappingTermMs", Unset>>,
              <<"node", "role", <<"follower">>>>}
MCDefPatches == {<<"holdTaps", 1, [flavor |-> "tap_preferred"]>>,
                 <<"modMorphs", 1, [keepMods |-> {}]>>}
MCLists == {<<"conditionalLayers", <<[ifLayers |-> <<"base">>, thenLayer |-> "fn"]>>>>,
            <<"autocorrect", <<[typo |-> <<97, 98>>, correction |-> <<65>>]>>>>}
MCTitles == {"fn"}
=============================================================================
