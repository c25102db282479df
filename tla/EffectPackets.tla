---------------------------- MODULE EffectPackets ----------------------------
(***************************************************************************)
(* The packets of a light: a steady look (commands 2 and 1) and the first  *)
(* generation of system effects (command 7), both of amaranble/telink.py,  *)
(* the second and third generation (command 34, systemfx2.py) and the      *)
(* pixel effects (command 33, pixelfx.py): builders, decoders, defaults    *)
(* and the merge of the two pages of a dual-page effect.                   *)
(*                                                                         *)
(* A packet is its command and the set of its bits that are one.  A layout *)
(* is a set of <<field, first bit, width>>; builder and decoder have their *)
(* own, as in the code, but share the placing of the colour fields, which  *)
(* is the same distance from the mode in every layout.  A state maps the   *)
(* names of the parameters it has to their values; a parameter that is     *)
(* None is not in its domain.  Checksum and write bit are left out.        *)
(***************************************************************************)
EXTENDS Integers, Sequences, FiniteSets, Functions

(* A record or function completed by another, and the one of a single      *)
(* argument, as @@ and :> of TLC, whose definitions the provers cannot use. *)
f ++ g == [n \in DOMAIN f \cup DOMAIN g |-> IF n \in DOMAIN f THEN f[n] ELSE g[n]]
At(n, v) == [m \in {n} |-> v]

Clamp(v, low, high) == IF v < low THEN low ELSE IF v > high THEN high ELSE v

Given(s, field, default) == IF field \in DOMAIN s THEN s[field] ELSE default

(* _build_payload: the fields, cut to their width, joined by "or".         *)
Bits(v, at, width) == {at + i : i \in {j \in 0..(width - 1) : (v \div 2^j) % 2 = 1}}
Packet(command, layout, wire) ==
  [command |-> command, bits |-> UNION {Bits(wire[f[1]], f[2], f[3]) : f \in layout}]

(* _get_bits, from the highest bit down.                                   *)
Value(packet, at, width) ==
  LET high[i \in 0..width] ==
        IF i = 0 THEN 0
        ELSE 2 * high[i - 1] + IF at + width - i \in packet.bits THEN 1 ELSE 0
  IN high[width]
Fields(layout, packet) ==
  [n \in {f[1] : f \in layout} |->
     LET f == CHOOSE g \in layout : g[1] = n IN Value(packet, f[2], f[3])]

-------------------------------------------------------------------------------
(* Command 7.                                                              *)

EffectIds ==
  [n \in {"Club Lights", "Paparazzi", "Lightning", "TV", "Candle", "Fire", "Strobe",
          "Explosion", "Faulty Bulb", "Pulsing", "Welding", "Cop Car", "Color Chase",
          "Party Lights", "Fireworks"} |->
     CASE n = "Club Lights" -> 0 [] n = "Paparazzi" -> 1 [] n = "Lightning" -> 2
       [] n = "TV" -> 3 [] n = "Candle" -> 4 [] n = "Fire" -> 5 [] n = "Strobe" -> 6
       [] n = "Explosion" -> 7 [] n = "Faulty Bulb" -> 8 [] n = "Pulsing" -> 9
       [] n = "Welding" -> 10 [] n = "Cop Car" -> 11 [] n = "Color Chase" -> 12
       [] n = "Party Lights" -> 13 [] n = "Fireworks" -> 14]

Effects1 == DOMAIN EffectIds
ColorModes1 == {"Welding", "Faulty Bulb", "Pulsing", "Strobe", "Explosion"}
Rate10 == {"Club Lights", "Candle", "Fire", "Explosion", "Color Chase", "Party Lights"}
MaxRate(e) == IF e \in Rate10 THEN 10 ELSE 11
MaxVariant(e) ==
  CASE e \in {"TV", "Candle", "Fire", "Fireworks"} -> 2
    [] e = "Club Lights" -> 7 [] e = "Cop Car" -> 4 [] OTHER -> 0
DefaultTrigger(e) ==
  CASE e \in {"Lightning", "Strobe", "Faulty Bulb", "Pulsing", "Welding"} -> 2
    [] e = "Explosion" -> 1 [] OTHER -> 0

(* The layout effect() packs into, by effect and colour mode.              *)
EncodeLayout(e, mode) ==
  LET rateAt50 == {<<"frequency", 50, 4>>, <<"intensity", 54, 10>>}
      rateAt56 == {<<"intensity", 46, 10>>, <<"frequency", 56, 4>>, <<"mode", 60, 4>>}
      hsi == {<<"trigger", 28, 2>>, <<"saturation", 30, 7>>, <<"hue", 37, 9>>}
  IN {<<"on", 8, 1>>, <<"id", 64, 8>>} \cup
     CASE e \in {"Club Lights", "Cop Car"} -> rateAt50 \cup {<<"variant", 46, 4>>}
       [] e \in {"Color Chase", "Party Lights"} -> rateAt50 \cup {<<"saturation", 43, 7>>}
       [] e \in {"Candle", "TV", "Fire"} -> rateAt50 \cup {<<"variant", 40, 10>>}
       [] e = "Fireworks" -> rateAt50 \cup {<<"variant", 42, 8>>}
       [] e = "Paparazzi" ->
            rateAt50 \cup {<<"high", 30, 1>>, <<"gmFlag", 31, 1>>, <<"gmHigh", 32, 1>>,
                           <<"gm", 33, 7>>, <<"cct", 40, 10>>}
       [] e = "Lightning" ->
            rateAt50 \cup {<<"high", 24, 1>>, <<"gmFlag", 25, 1>>, <<"gmHigh", 26, 1>>,
                           <<"speed", 27, 4>>, <<"trigger", 31, 2>>, <<"gm", 33, 7>>,
                           <<"cct", 40, 10>>}
       [] e = "Welding" /\ mode = 1 -> rateAt56 \cup hsi \cup {<<"speed", 21, 7>>}
       [] e = "Welding" /\ mode = 0 ->
            rateAt56 \cup {<<"high", 17, 1>>, <<"gmFlag", 18, 1>>, <<"gmHigh", 19, 1>>,
                           <<"speed", 20, 7>>, <<"trigger", 27, 2>>, <<"gm", 29, 7>>,
                           <<"cct", 36, 10>>}
       [] e \in {"Faulty Bulb", "Pulsing"} /\ mode = 1 ->
            rateAt56 \cup hsi \cup {<<"speed", 24, 4>>}
       [] e \in {"Faulty Bulb", "Pulsing"} /\ mode = 0 ->
            rateAt56 \cup {<<"high", 20, 1>>, <<"gmFlag", 21, 1>>, <<"gmHigh", 22, 1>>,
                           <<"speed", 23, 4>>, <<"trigger", 27, 2>>, <<"gm", 29, 7>>,
                           <<"cct", 36, 10>>}
       [] e \in {"Strobe", "Explosion"} /\ mode = 1 -> rateAt56 \cup hsi
       [] e \in {"Strobe", "Explosion"} /\ mode = 0 ->
            rateAt56 \cup {<<"high", 24, 1>>, <<"gmFlag", 25, 1>>, <<"gmHigh", 26, 1>>,
                           <<"trigger", 27, 2>>, <<"gm", 29, 7>>, <<"cct", 36, 10>>}

(* The legacy green/magenta steps of ten: truncated above neutral, rounded *)
(* at and below it.                                                        *)
CoarseGm(gm) == IF gm > 100 THEN gm \div 10 ELSE (gm + 5) \div 10

(* effect(): every parameter clamped, those not given by default.          *)
EffectWire(e, s) ==
  LET tens == Clamp(Given(s, "kelvin", 5600), 800, 20000) \div 10
      gm   == Clamp(Given(s, "gm", 100), 0, 200)
      flag == Given(s, "gmFlag", 0)
      weld == e = "Welding"
  IN [on |-> 1, id |-> EffectIds[e], mode |-> Clamp(Given(s, "mode", 1), 0, 1),
      intensity  |-> Clamp(Given(s, "intensity", 180), 0, 1000),
      frequency  |-> Clamp(Given(s, "frequency", 5), 1, MaxRate(e)),
      speed      |-> Clamp(Given(s, "speed", IF weld THEN 18 ELSE 5),
                           IF weld THEN 0 ELSE 1, IF weld THEN 127 ELSE 10),
      trigger    |-> Clamp(Given(s, "trigger", DefaultTrigger(e)), 0, 3),
      cct        |-> IF tens > 1000 THEN tens - 1000 ELSE tens,
      high       |-> IF tens > 1000 THEN 1 ELSE 0,
      gmFlag     |-> flag,
      gmHigh     |-> IF flag = 1 /\ gm > 100 THEN 1 ELSE 0,
      gm         |-> IF flag = 0 THEN CoarseGm(gm) ELSE IF gm > 100 THEN gm - 100 ELSE gm,
      variant    |-> Clamp(Given(s, "variant", IF e = "Cop Car" THEN 2 ELSE 0), 0, MaxVariant(e)),
      saturation |-> Clamp(Given(s, "saturation", 100), 0, 100),
      hue        |-> Clamp(Given(s, "hue", 0), 0, 360)]
EncodeEffect(e, s) ==
  LET wire == EffectWire(e, s) IN Packet(7, EncodeLayout(e, wire.mode), wire)

(* Where decode_effect looks for the parameters.                           *)
DecodeLayout(e, mode) ==
  LET dual == {<<"intensity", 46, 10>>, <<"frequency", 56, 4>>, <<"mode", 60, 4>>}
      cct(high) == {<<"cct", 36, 10>>, <<"high", high, 1>>, <<"gmFlag", high + 1, 1>>,
                    <<"gmHigh", high + 2, 1>>, <<"gm", 29, 7>>, <<"trigger", 27, 2>>}
      hsi == {<<"trigger", 28, 2>>, <<"saturation", 30, 7>>, <<"hue", 37, 9>>}
      single == {<<"intensity", 54, 10>>, <<"frequency", 50, 4>>}
  IN CASE e \in {"Club Lights", "Cop Car"} -> single \cup {<<"variant", 46, 4>>}
       [] e \in {"Color Chase", "Party Lights"} -> single \cup {<<"saturation", 43, 7>>}
       [] e \in {"Candle", "TV", "Fire"} -> single \cup {<<"variant", 40, 10>>}
       [] e = "Fireworks" -> single \cup {<<"variant", 42, 8>>}
       [] e = "Paparazzi" ->
            single \cup {<<"cct", 40, 10>>, <<"high", 30, 1>>, <<"gmFlag", 31, 1>>,
                         <<"gmHigh", 32, 1>>, <<"gm", 33, 7>>}
       [] e = "Lightning" ->
            single \cup {<<"speed", 27, 4>>, <<"trigger", 31, 2>>, <<"cct", 40, 10>>,
                         <<"high", 24, 1>>, <<"gmFlag", 25, 1>>, <<"gmHigh", 26, 1>>,
                         <<"gm", 33, 7>>}
       [] e = "Welding" ->
            dual \cup IF mode = 0 THEN cct(17) \cup {<<"speed", 20, 7>>}
                                  ELSE hsi \cup {<<"speed", 21, 7>>}
       [] e \in {"Faulty Bulb", "Pulsing"} ->
            dual \cup IF mode = 1 THEN hsi \cup {<<"speed", 24, 4>>}
                                  ELSE cct(20) \cup {<<"speed", 23, 4>>}
       [] e \in {"Strobe", "Explosion"} -> dual \cup IF mode = 1 THEN hsi ELSE cct(24)

DecodeEffect(packet) ==
  LET e == CHOOSE n \in Effects1 : EffectIds[n] = Value(packet, 64, 8)
      w == Fields(DecodeLayout(e, Value(packet, 60, 4)), packet)
      plain == [n \in DOMAIN w \ {"cct", "high", "gm", "gmHigh"} |-> w[n]]
  IN [on |-> Value(packet, 8, 1), effect |-> e] ++ plain ++
     IF "cct" \notin DOMAIN w THEN <<>>
     ELSE [kelvin |-> (w.cct + 1000 * w.high) * 10,
           gm |-> IF w.gmFlag = 0 THEN w.gm * 10 ELSE w.gm + 100 * w.gmHigh]

-------------------------------------------------------------------------------
(* A steady look, commands 2 (CCT) and 1 (HSI).                            *)

StatusLayout(hsi) ==
  {<<"on", 8, 1>>, <<"intensity", 62, 10>>} \cup
  IF hsi THEN {<<"saturation", 46, 7>>, <<"hue", 53, 9>>}
         ELSE {<<"high", 42, 1>>, <<"gmFlag", 43, 1>>, <<"gmHigh", 44, 1>>,
               <<"gm", 45, 7>>, <<"cct", 52, 10>>}

(* cct(), its green/magenta shift in tenths from 0 to 200.                 *)
Cct(kelvin, intensity, gm, flag) ==
  LET tens == Clamp(kelvin, 800, 20000) \div 10
  IN Packet(2, StatusLayout(FALSE),
       [on |-> 0, intensity |-> Clamp(intensity, 0, 1000),
        high |-> IF tens < 1001 THEN 0 ELSE 1,
        cct |-> IF tens < 1001 THEN tens ELSE (tens + 24) % 1024, gmFlag |-> flag,
        gmHigh |-> IF flag = 1 /\ gm > 100 THEN 1 ELSE 0,
        gm |-> IF flag = 0 THEN CoarseGm(gm) ELSE IF gm > 100 THEN gm - 100 ELSE gm])

Hsi(hue, saturation, intensity) ==
  Packet(1, StatusLayout(TRUE),
    [on |-> 0, intensity |-> Clamp(intensity, 0, 1000), hue |-> Clamp(hue, 0, 360),
     saturation |-> Clamp(saturation, 0, 100)])

(* decode_status(); the shift is again in tenths.                          *)
DecodeStatus(packet) ==
  LET hsi == packet.command = 1
      w   == Fields(StatusLayout(hsi), packet)
  IN [hsi |-> hsi, on |-> w.on] ++
     IF hsi THEN [intensity |-> Clamp(w.intensity, 0, 1000), hue |-> Clamp(w.hue, 0, 360),
                  saturation |-> Clamp(w.saturation, 0, 100)]
     ELSE [intensity |-> w.intensity, kelvin |-> (w.cct + 1000 * w.high) * 10,
           gm |-> Clamp(IF w.gmFlag = 1 THEN w.gm + 100 * w.gmHigh ELSE w.gm * 10, 0, 200)]

-------------------------------------------------------------------------------
(* Command 34.                                                             *)

Effect2Names ==
  <<"Paparazzi II", "Lightning II", "TV II", "Fire II", "Strobe II", "Explosion II",
    "Faulty Bulb II", "Pulsing II", "Welding II", "Cop Car II", "Party Lights II",
    "Fireworks II", "Lightning III", "TV III", "Fire III", "Faulty Bulb III",
    "Pulsing III", "Cop Car III">>
Effect2Id(e) == (CHOOSE i \in DOMAIN Effect2Names : Effect2Names[i] = e) - 1
Defaulted == {Effect2Names[i] : i \in 1..12}
Dual == {"Paparazzi II", "Welding II", "Lightning III", "TV III", "Fire III",
         "Faulty Bulb III"}
Gapped == {"Paparazzi II", "Lightning III", "TV III", "Faulty Bulb III"}
Kelvins == {"kelvin", "center_kelvin", "min_kelvin", "max_kelvin", "gel_kelvin"}

(* _color_fields, _decode_color_fields                                     *)
ColorLayout(mode, at, gels) ==
  {<<"mode", at, 3>>} \cup
  IF mode = 0 THEN {<<"kelvin", at - 9, 9>>, <<"gm", at - 17, 8>>}
  ELSE IF mode = 1 \/ ~gels
  THEN {<<"hue", at - 9, 9>>, <<"saturation", at - 16, 7>>, <<"center_kelvin", at - 25, 9>>}
  ELSE {<<"gel_kelvin", at - 9, 9>>, <<"gel_origin", at - 10, 1>>,
        <<"gel_type", at - 14, 4>>, <<"color", at - 24, 10>>}

(* _range_color_fields, _decode_range_color_fields                         *)
RangeLayout(mode, at) ==
  {<<"mode", at, 3>>} \cup
  IF mode = 0 THEN {<<"max_kelvin", at - 9, 9>>, <<"min_kelvin", at - 18, 9>>,
                    <<"gm", at - 26, 8>>}
  ELSE {<<"max_hue", at - 9, 9>>, <<"min_hue", at - 18, 9>>, <<"saturation", at - 25, 7>>,
        <<"center_kelvin", at - 34, 9>>}

(* effect2_packet: the layout of a page of a dual-page effect.             *)
PageLayout(e, page, mode) ==
  {<<"package", 61, 1>>} \cup
  CASE page = 0 ->
         {<<"intensity", 51, 10>>} \cup
         IF e \in Gapped THEN {<<"gap_time", 42, 9>>, <<"min_gap_time", 33, 9>>}
         ELSE IF e = "Welding II" THEN {<<"min_intensity", 41, 10>>, <<"frequency", 37, 4>>}
         ELSE {<<"frequency", 43, 8>>}
    [] page = 1 -> IF e \in {"TV III", "Fire III"} THEN RangeLayout(mode, 58)
                   ELSE ColorLayout(mode, 58, TRUE)

(* effect2_packet: the layout of an effect of one page.                    *)
SingleLayout(e, mode) ==
  {<<"intensity", 52, 10>>} \cup
  CASE e = "Lightning II" ->
         {<<"frequency", 48, 4>>, <<"speed", 44, 4>>} \cup ColorLayout(mode, 41, FALSE)
    [] e \in {"Faulty Bulb II", "Pulsing II"} ->
         {<<"frequency", 44, 4>>, <<"speed", 48, 4>>} \cup ColorLayout(mode, 41, TRUE)
    [] e = "Pulsing III" -> {<<"frequency", 44, 8>>} \cup ColorLayout(mode, 41, TRUE)
    [] e \in {"TV II", "Fire II"} -> {<<"speed", 48, 4>>} \cup RangeLayout(mode, 45)
    [] e = "Strobe II" -> {<<"speed", 48, 4>>} \cup ColorLayout(mode, 45, TRUE)
    [] e = "Explosion II" -> {<<"decay", 48, 4>>} \cup ColorLayout(mode, 45, TRUE)
    [] e \in {"Cop Car II", "Cop Car III"} -> {<<"frequency", 48, 4>>, <<"color", 45, 3>>}
    [] e = "Party Lights II" -> {<<"saturation", 42, 10>>, <<"speed", 36, 6>>}
    [] OTHER -> \* "Fireworks II"
         {<<"gap_time", 43, 9>>, <<"min_gap_time", 34, 9>>, <<"variant", 32, 2>>}

(* effect2_packet: kelvin in steps of fifty, intensities at most 1000, all *)
(* else clamped to its width.                                              *)
Effect2Packet(e, page, state, s) ==
  LET mode == Clamp(Given(s, "mode", 0), 0, 7)
      layout == IF e \in Dual THEN PageLayout(e, page, mode) ELSE SingleLayout(e, mode)
      whole == [package |-> page] ++ s
      wire == [n \in {f[1] : f \in layout} |->
                 LET f == CHOOSE g \in layout : g[1] = n
                 IN IF n \in Kelvins THEN Clamp(whole[n] \div 50, 0, 511)
                    ELSE Clamp(whole[n], 0, IF f[3] = 10 /\ n \in {"intensity", "min_intensity"}
                                            THEN 1000 ELSE 2^f[3] - 1)]
  IN Packet(34, layout \cup {<<"state", 62, 2>>, <<"id", 64, 8>>},
            wire ++ [state |-> state, id |-> Effect2Id(e)])

(* effect2: the packets of a generation-II effect; what is not given is    *)
(* the app's default.                                                      *)
Effect2Default(e) ==
  [intensity |-> IF e = "Welding II" THEN 500 ELSE 180, mode |-> 1, kelvin |-> 5600,
   gm |-> 100, hue |-> 1, saturation |-> 100,
   center_kelvin |-> IF e = "Welding II" THEN 12 ELSE 5600,
   gel_kelvin |-> 5600, gel_origin |-> 0, gel_type |-> 0,
   color |-> IF e = "Cop Car II" THEN 4 ELSE 0, gap_time |-> 60, min_gap_time |-> 20,
   min_intensity |-> 180, frequency |-> 5, speed |-> 5, decay |-> 5,
   min_kelvin |-> 3200, max_kelvin |-> 6500, min_hue |-> 1, max_hue |-> 180,
   variant |-> 0]
Effect2(e, s, on) ==
  LET full == s ++ Effect2Default(e)
  IN IF e \in Dual THEN <<Effect2Packet(e, 0, 3, full), Effect2Packet(e, 1, on, full)>>
                   ELSE <<Effect2Packet(e, 0, on, full)>>

(* decode_effect2                                                          *)
DecodeEffect2(packet) ==
  LET e      == Effect2Names[Value(packet, 64, 8) + 1]
      page   == Value(packet, 61, 1)
      modeAt == IF e \in Dual THEN 58
                ELSE IF e \in {"Lightning II", "Faulty Bulb II", "Pulsing II", "Pulsing III"}
                THEN 41 ELSE 45
      mode   == Value(packet, modeAt, 3)
      w      == Fields(IF e \in Dual THEN PageLayout(e, page, mode) ELSE SingleLayout(e, mode),
                       packet)
      state  == Value(packet, 62, 2)
  IN [n \in DOMAIN w |-> IF n \in Kelvins THEN w[n] * 50 ELSE w[n]] ++
     [effect |-> e, state |-> state, on |-> IF state = 0 THEN 0 ELSE 1]

(* merge_effect2_states; no state before is the empty record.              *)
MergeEffect2(previous, current) ==
  IF \/ Given(previous, "effect", "none") # current.effect
     \/ current.effect \notin Dual
     \/ "package" \in DOMAIN previous /\ previous.package = current.package
  THEN current
  ELSE LET power == IF current.package = 1 THEN current ELSE previous
           named == (DOMAIN current \cup DOMAIN previous) \ {"package"}
       IN [n \in named |-> IF n \in {"state", "on"} THEN power[n]
                           ELSE Given(current, n, Given(previous, n, 0))]

-------------------------------------------------------------------------------
(* Command 33: the pages of a pixel effect.                                *)

PixelId(e) ==
  CASE e = "Color Fade" -> 0 [] e = "Color Cycle" -> 1 [] e = "One Pixel Chase" -> 2
    [] e = "Two Pixel Chase" -> 3 [] e = "Three Pixel Chase" -> 4 [] e = "Pixel Fire" -> 5
    [] e = "Rainbow" -> 7
Chases == {"One Pixel Chase", "Two Pixel Chase", "Three Pixel Chase"}
Pixels == Chases \cup {"Color Fade", "Color Cycle", "Pixel Fire", "Rainbow"}
Control == 0
Color == 1
Base == 2
Stop == 0
Running == 2
Continue == 3

(* _color_fields, _decode_color: temperature, hue or black.                *)
PixelColor(mode, at) ==
  {<<"light_mode", at, 2>>} \cup
  CASE mode = 0 -> {<<"cct_raw", at - 9, 9>>, <<"gm_raw", at - 17, 8>>}
    [] mode = 1 -> {<<"hue", at - 9, 9>>, <<"saturation", at - 16, 7>>,
                    <<"hsi_cct_raw", at - 25, 9>>}
    [] OTHER -> {}

(* color_fade, color_cycle, chase, pixel_fire_*, rainbow and color; decode *)
(* reads the same places.                                                  *)
PixelLayout(e, type, mode) ==
  {<<"playback", 62, 2>>} \cup
  IF e = "Rainbow" THEN {<<"speed", 39, 10>>, <<"direction", 49, 3>>, <<"brightness", 52, 10>>}
  ELSE {<<"packet_type", 60, 2>>} \cup
    CASE type = Control /\ e = "Color Fade" ->
           {<<"speed", 42, 10>>, <<"direction", 52, 4>>, <<"color_count", 56, 4>>}
      [] type = Control /\ e = "Color Cycle" ->
           {<<"change_way", 40, 2>>, <<"speed", 42, 10>>, <<"direction", 52, 4>>,
            <<"color_count", 56, 4>>}
      [] type = Control /\ e \in Chases ->
           {<<"speed", 43, 10>>, <<"pixel_length", 53, 3>>, <<"direction", 56, 2>>,
            <<"group", 58, 2>>}
      [] type = Control /\ e = "Pixel Fire" -> {<<"direction", 48, 2>>, <<"frequency", 50, 10>>}
      [] type = Color /\ e = "Pixel Fire" ->
           {<<"min_brightness", 40, 10>>, <<"max_brightness", 50, 10>>} \cup PixelColor(mode, 38)
      [] type = Base -> {<<"brightness", 50, 10>>} \cup PixelColor(mode, 48)
      [] OTHER -> {<<"brightness", 46, 10>>, <<"serial", 56, 4>>} \cup PixelColor(mode, 44)

(* encode                                                                  *)
EncodePixel(s) ==
  LET layout == PixelLayout(s.effect, Given(s, "packet_type", Control), Given(s, "light_mode", 2))
      width(n) == (CHOOSE f \in layout : f[1] = n)[3]
  IN Packet(33, layout \cup {<<"id", 64, 8>>},
            [n \in {f[1] : f \in layout} |-> Clamp(s[n], 0, 2^width(n) - 1)]
              ++ [id |-> PixelId(s.effect)])

(* decode                                                                  *)
PixelOf(packet) == CHOOSE e \in Pixels : PixelId(e) = Value(packet, 64, 8)
ModeAt(e, type) == IF e # "Pixel Fire" THEN 44 ELSE IF type = Color THEN 38 ELSE 48
DecodePixel(packet) ==
  LET e    == PixelOf(packet)
      type == Value(packet, 60, 2)
      mode == Value(packet, ModeAt(e, type), 2)
  IN Fields(PixelLayout(e, type, mode), packet) ++ [effect |-> e]

(* The pages there are; decode returns None for any other.                 *)
Paged(e, type) ==
  \/ e = "Rainbow"
  \/ type \in {Control, Color}
  \/ type = Base /\ e = "Pixel Fire"
PixelReadable(packet) ==
  LET e    == PixelOf(packet)
      type == Value(packet, 60, 2)
  IN /\ Value(packet, 64, 8) \in {PixelId(known) : known \in Pixels}
     /\ Paged(e, type)
     /\ e # "Rainbow" /\ type # Control => Value(packet, ModeAt(e, type), 2) \in 0..2

(* effect: the app's default program, as the states its packets decode to. *)
PixelDefaults(e, on) ==
  LET final == IF on THEN Running ELSE Stop
      slot(i, look) == [effect |-> e, playback |-> Continue, packet_type |-> Color,
                        serial |-> i, brightness |-> 180] ++ look
      white  == [light_mode |-> 0, cct_raw |-> 112, gm_raw |-> 100]
      hue(h) == [light_mode |-> 1, hue |-> h, saturation |-> 100, hsi_cct_raw |-> 112]
      black  == [light_mode |-> 2]
      end(fields) == [effect |-> e, playback |-> final, packet_type |-> Control] ++ fields
      run == end([direction |-> 1, speed |-> 100, group |-> 0, pixel_length |-> 1])
  IN CASE e = "Color Fade" ->
            <<slot(0, white), slot(1, hue(120)),
              end([color_count |-> 2, direction |-> 1, speed |-> 100])>>
       [] e = "Color Cycle" ->
            <<slot(0, white), slot(1, hue(120)),
              end([color_count |-> 2, direction |-> 1, speed |-> 20, change_way |-> 0])>>
       [] e = "One Pixel Chase" -> <<slot(0, hue(120)), slot(1, white), run>>
       [] e = "Two Pixel Chase" -> <<slot(0, black), slot(1, hue(120)), slot(2, hue(240)), run>>
       [] e = "Three Pixel Chase" ->
            <<slot(0, black), slot(1, hue(120)), slot(2, hue(240)), slot(3, hue(360)), run>>
       [] e = "Pixel Fire" ->
            <<[effect |-> e, playback |-> Continue, packet_type |-> Color,
               max_brightness |-> 500, min_brightness |-> 180]
                ++ [light_mode |-> 0, cct_raw |-> 64, gm_raw |-> 100],
              [effect |-> e, playback |-> Continue, packet_type |-> Base,
               brightness |-> 180] ++ hue(360),
              end([frequency |-> 20, direction |-> 0])>>
       [] e = "Rainbow" ->
            <<[effect |-> e, playback |-> final, brightness |-> 180, direction |-> 0,
               speed |-> 100]>>

===============================================================================
