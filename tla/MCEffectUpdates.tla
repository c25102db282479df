--------------------------- MODULE MCEffectUpdates ---------------------------
(* Programs of every family and of every layout, with values on both sides *)
(* of the encodings' boundaries.                                           *)
EXTENDS EffectUpdates, SequencesExt

Single(packet) == 0 :> packet
Pages(packets) == [k \in {Page(packets[i]) : i \in DOMAIN packets} |->
                     packets[CHOOSE i \in DOMAIN packets : Page(packets[i]) = k]]
Lit(packet) == [packet EXCEPT !.bits = @ \cup {8}]

Looks == {Single(Lit(Cct(3200, 400, 90, 1))), Single(Lit(Cct(12000, 502, 130, 1))),
          Single(Lit(Hsi(240, 60, 300)))}

Command7(mode, effects) ==
  {Single(EncodeEffect(e, [intensity |-> 501, frequency |-> 7, speed |-> 9, trigger |-> 1,
     kelvin |-> IF mode = 0 THEN 4300 ELSE 11000, gm |-> IF mode = 0 THEN 73 ELSE 140,
     gmFlag |-> 1, mode |-> mode, variant |-> 1, hue |-> 300, saturation |-> 42])) :
     e \in effects}

Command34(mode, effects) ==
  {Pages(Effect2(e, [intensity |-> 777, mode |-> mode, kelvin |-> 4300, gm |-> 130,
     hue |-> 300, saturation |-> 42, center_kelvin |-> 6000, gel_kelvin |-> 3200,
     gel_origin |-> 1, gel_type |-> 5, color |-> 3, gap_time |-> 300, min_gap_time |-> 7,
     min_intensity |-> 90, frequency |-> 3, speed |-> 2, decay |-> 8, min_kelvin |-> 2700,
     max_kelvin |-> 9000, min_hue |-> 20, max_hue |-> 200, variant |-> 2], 1)) :
     e \in effects}

Slots(e, n, end) ==
  Pages([i \in 1..n |-> EncodePixel([effect |-> e, playback |-> Continue, packet_type |-> Color,
           serial |-> i - 1, brightness |-> 250, light_mode |-> 1, hue |-> 10 * i,
           saturation |-> 80, hsi_cct_raw |-> 64])]
        \o <<EncodePixel([effect |-> e, playback |-> Running, packet_type |-> Control,
                          speed |-> 33, direction |-> 0] @@ end)>>)
Cycle(n) == Slots("Color Cycle", n, [color_count |-> n, change_way |-> 1])
Chase(e, n, group) == Slots(e, n, [group |-> group, pixel_length |-> 2])
Command33 ==
  {Cycle(2), Cycle(3), Chase("One Pixel Chase", 2, 0), Chase("One Pixel Chase", 3, 1)}
  \cup {Pages([i \in DOMAIN PixelDefaults(e, TRUE) |-> EncodePixel(PixelDefaults(e, TRUE)[i])]) :
          e \in {"Color Fade", "Pixel Fire", "Rainbow"}}

Plain34 == {"Cop Car II", "Party Lights II", "Fireworks II"}
AllPrograms ==
  Looks \cup Command7(0, Effects1) \cup Command7(1, ColorModes1)
  \cup Command34(0, Defaulted) \cup Command34(1, Defaulted \ Plain34)
  \cup Command34(2, Defaulted \ (Plain34 \cup {"Lightning II", "TV II", "Fire II"}))
  \cup Command33
LaterTurns == {Cycle(2), Cycle(3), Single(Lit(Cct(3200, 400, 90, 1)))}
              \cup Command34(0, {"Welding II"})
WeldingPrograms == Command34(0, {"Welding II"}) \cup Command34(1, {"Welding II"})
Applied == {"Color Cycle", "Welding", "Welding II"}
AskedValues ==
  [n \in {"frequency", "kelvin", "hue", "saturation", "gm", "variant", "mode", "intensity"} |->
     CASE n = "frequency" -> {11} [] n = "kelvin" -> {2713} [] n = "hue" -> {0}
       [] n = "saturation" -> {100} [] n = "gm" -> {105} [] n = "variant" -> {2}
       [] n = "mode" -> {0, 1} [] n = "intensity" -> {3}]
===============================================================================
