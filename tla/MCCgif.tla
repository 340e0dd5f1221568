---------------------------------- MODULE MCCgif -------------------------------
(***************************************************************************)
(* Cgif on small instances: two columns and five rows, so that each pass   *)
(* of an interlaced frame has a row; tables of up to 8 entries.            *)
(***************************************************************************)
EXTENDS CgifMovie

\* "key" is only ever used for transparent pixels.
Palette == <<"red", "green", "key">>
Config(attr, gen, numLoops) ==
    [attr |-> attr, gen |-> gen, palette |-> Palette, numLoops |-> numLoops]

Optimized == Config({"ANIMATED"}, {}, 0)
Mixed     == Config({"ANIMATED"}, {}, 3)
Keeping   == Config({"ANIMATED", "NO_LOOP"}, {"KEEP_IDENT"}, 0)
Global    == Config({"ANIMATED", "TRANSPARENCY"}, {}, 0)
Tables    == Config({"ANIMATED", "NO_GLOBAL_TABLE"}, {}, 0)
Static    == Config({}, {}, 0)
MCConfigs == {Optimized, Mixed, Keeping, Global, Tables, Static}

\* Indices into Palette; 2 is transparent where the frame says so, and 7 is no
\* colour.
Plain   == <<0, 0, 0, 1, 1, 0, 0, 1, 1, 1>>
Corner  == [Plain EXCEPT ![4] = 0, ![5] = 0]
Bottom  == [Plain EXCEPT ![10] = 0]
Holes   == [Plain EXCEPT ![1] = 2, ![9] = 2]
Bad     == [Plain EXCEPT ![3] = 7]
Swapped == [p \in 1..10 |-> 1 - Corner[p]]
Gap     == [Plain EXCEPT ![1] = 3]

Both == {"USE_TRANSPARENCY", "DIFF_WINDOW"}
Frame(attr, gen, palette, pixels) ==
    [attr |-> attr, gen |-> gen, palette |-> palette, pixels |-> pixels,
     delay |-> 1, transIndex |-> 2]

\* A local table with the two colours the other way round, and a full one.
SwappedFrame == Frame({"LOCAL_TABLE"}, Both, <<"green", "red">>, Swapped)
FullTable == Frame({"LOCAL_TABLE"}, Both,
                   <<"red", "green">> \o [i \in 1..6 |-> "blue"], Bottom)

\* Frames a program should not add (Proper): red is transparent where it is opaque in
\* the others, and an index of the padding.
Clash == [Frame({"LOCAL_TABLE", "ALPHA"}, Both, <<"red", "green">>, Plain)
            EXCEPT !.transIndex = 0]
Padding == Frame({}, {}, << >>, Gap)

MCFrames(c) ==
    CASE c = Optimized -> {Frame({}, {}, << >>, Plain),
                           Frame({"INTERLACED"}, Both, << >>, Corner),
                           Frame({}, {"USE_TRANSPARENCY"}, << >>, Bottom), SwappedFrame}
      [] c = Mixed -> {Frame({"ALPHA"}, Both, << >>, Holes), Frame({}, Both, << >>, Corner),
                       Frame({"SET_TRANS", "INTERLACED"}, {"DIFF_WINDOW"}, << >>, Holes),
                       Frame({"ALPHA", "INTERLACED"}, {}, << >>, [Holes EXCEPT ![10] = 2])}
      [] c = Keeping -> {Frame({}, Both, << >>, Plain), FullTable, SwappedFrame, Padding,
                         Frame({"SET_TRANS"}, {"DIFF_WINDOW"}, << >>, Holes)}
      [] c = Tables -> {FullTable, SwappedFrame, Frame({}, {}, << >>, Plain), Clash,
                        Frame({"LOCAL_TABLE"}, Both, <<"red", "green">>, Bad)}
      [] OTHER -> {Frame({}, {}, << >>, Plain),
                   Frame({"INTERLACED"}, Both, << >>, Corner),
                   Frame({}, {"DIFF_WINDOW"}, << >>, Holes),
                   Frame({"ALPHA"}, {}, << >>, Holes)}

================================================================================
