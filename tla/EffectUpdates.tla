---------------------------- MODULE EffectUpdates ----------------------------
(***************************************************************************)
(* Device's view of the running effect (device.py): reports of the look or *)
(* effect of the fixture replace or complete what is shown, page by page,  *)
(* and every change of one parameter rebuilds all packets of the effect    *)
(* from what is shown, sends them unacknowledged and waits for a report    *)
(* that matches.                                                           *)
(*                                                                         *)
(* The fixture runs a program: packets by page.  It takes each packet of   *)
(* the app as it comes, can be given another program on its panel at any   *)
(* time, and reports a page when asked or by itself; any packet and any    *)
(* report may be lost.  Calls are serial (_operation_lock).  Left out, and *)
(* modelled elsewhere or not at all: Boost (LightRequests), an output that *)
(* is switched off, superseded sliders, polls (a report comes any time).   *)
(***************************************************************************)
EXTENDS EffectPackets
LOCAL INSTANCE SequencesExt

CONSTANTS
  Programs,                 \* what the fixture may run when first heard
  Turns,                    \* those of them among which the panel may turn
  Effects,                  \* effects async_apply_effect may select
  Asked,                    \* field -> the values a user may ask for
  MinKelvin, MaxKelvin,     \* of the profile, which has colour and green/magenta
  GmV2,                     \* 1 when the profile carries tenths of green/magenta
  MaxCalls,
  MaxMishaps                \* panel turns and losses together

NotGiven == -1
NoEffect == [family |-> "none"]
NoLook   == [hsi |-> FALSE, on |-> 0, intensity |-> 0]

VARIABLES
  fixture,       \* the fixture: page -> packet
  told,          \* history: pages reported since they, or a call, last changed them
  steady,        \* _state
  preferredGm,   \* _preferred_gm, from 0 to 200
  shown,         \* _effect_state, _effect2_state or _pixel_state: never two of them
  call,          \* the call that holds the operation lock
  calls, mishaps

vars == <<fixture, told, steady, preferredGm, shown, call, calls, mishaps>>

Idle == [phase |-> "idle"]

(* _pixel_page_key: colours by serial, then base, then control; the pages  *)
(* of any other family by their number.                                    *)
PageKey(s) ==
  IF s.effect = "Rainbow" THEN 17
  ELSE CASE s.packet_type = Color -> Given(s, "serial", 0)
         [] s.packet_type = Base -> 16
         [] OTHER -> 17

(* The decoders in the order _on_access_message tries them.                *)
Decoded(packet) ==
  CASE packet.command \in {1, 2} -> DecodeStatus(packet)
    [] packet.command = 7 -> DecodeEffect(packet)
    [] packet.command = 34 -> DecodeEffect2(packet)
    [] packet.command = 33 -> DecodePixel(packet)

Page(packet) ==
  CASE packet.command = 33 -> PageKey(DecodePixel(packet))
    [] packet.command = 34 -> Given(DecodeEffect2(packet), "package", 0)
    [] OTHER -> 0

(* A program is the pages of one effect, each under its own number and     *)
(* none that the decoder of pixel pages refuses.                           *)
Commands == {1, 2, 7, 33, 34}
WellFormed(program) ==
  /\ DOMAIN program # {}
  /\ \A k \in DOMAIN program : /\ program[k].command \in Commands /\ Page(program[k]) = k
                               /\ program[k].command = 33 => PixelReadable(program[k])
  /\ \A k, l \in DOMAIN program : /\ program[k].command = program[l].command
                                  /\ Value(program[k], 64, 8) = Value(program[l], 64, 8)

ASSUME ProgramsAssumption ==
  Turns \subseteq Programs /\ \A program \in Programs : WellFormed(program)

(* A profile's temperatures, in steps of a hundred (profiles.py:348-402),  *)
(* and what the user interface may ask for.                                *)
ASSUME ProfileAssumption ==
  /\ {MinKelvin, MaxKelvin} \subseteq {100 * n : n \in 8..200} /\ MinKelvin <= MaxKelvin
  /\ GmV2 \in {0, 1}
ASSUME AskedAssumption ==
  /\ "intensity" \in DOMAIN Asked
  /\ DOMAIN Asked \subseteq {"frequency", "kelvin", "hue", "saturation", "gm", "variant",
                             "mode", "intensity"}
  /\ \A n \in DOMAIN Asked : Asked[n] \subseteq
       CASE n = "variant" -> Nat [] n = "mode" -> {0, 1} [] n = "intensity" -> 0..1000
         [] OTHER -> Int

(* The parameters of a command-7 effect, within what effect() can send.    *)
EffectRange(e, n) ==
  CASE n = "intensity" -> 0..1000
    [] n = "frequency" -> 1..MaxRate(e)
    [] n = "speed" -> IF e = "Welding" THEN 0..127 ELSE 1..10
    [] n = "trigger" -> 0..3
    [] n = "kelvin" -> 800..20000
    [] n = "gm" -> 0..200
    [] n = "variant" -> 0..MaxVariant(e)
    [] n = "saturation" -> 0..100
    [] n = "hue" -> 0..360
    [] OTHER -> {0, 1}          \* "mode" and "gmFlag"

(* A packet of an effect there is, whose values the builders leave alone.  *)
(* A pixel packet has no others; hue and saturation of a steady look are   *)
(* clamped when they are read.                                             *)
InRange(packet) ==
  LET s == Decoded(packet)
      Within(n) == n \in DOMAIN s => s[n] \in 0..1000
  IN CASE packet.command = 7 ->
            /\ Value(packet, 64, 8) \in 0..14
            /\ \A n \in DOMAIN s \ {"effect", "on"} : s[n] \in EffectRange(s.effect, n)
       [] packet.command = 34 ->
            Value(packet, 64, 8) \in 0..17 /\ Within("intensity") /\ Within("min_intensity")
       [] OTHER -> packet.command \in {1, 2} => Within("intensity")

ASSUME RangesAssumption ==
  \A program \in Programs : \A k \in DOMAIN program : InRange(program[k])

Look(program) == [k \in DOMAIN program |-> Decoded(program[k])]

-------------------------------------------------------------------------------
(* Pixel programs.                                                         *)

(* _merge_pixel_page                                                       *)
MergePixel(current, page) ==
  LET same  == current.family = "pixel" /\ Given(current, "effect", "none") = page.effect
      pages == At(PageKey(page), page) ++ IF same THEN current.pages ELSE <<>>
  IN [family |-> "pixel", effect |-> page.effect, pages |-> pages,
      playback |-> IF 17 \in DOMAIN pages THEN pages[17].playback
                   ELSE IF same THEN current.playback ELSE page.playback]

(* _decode_pixel_sequence: the pages of one effect merged in turn, the     *)
(* last of each kind kept.                                                 *)
PixelProgram(pages) ==
  LET Latest(k) == CHOOSE i \in DOMAIN pages :
                   /\ PageKey(pages[i]) = k
                   /\ \A j \in DOMAIN pages : PageKey(pages[j]) = k => j <= i
      merged  == [k \in {PageKey(pages[i]) : i \in DOMAIN pages} |-> pages[Latest(k)]]
  IN [family |-> "pixel", effect |-> pages[1].effect, pages |-> merged,
      playback |-> IF 17 \in DOMAIN merged THEN merged[17].playback ELSE pages[1].playback]

(* The pages a control page calls for, in the order they are sent.         *)
PixelKeys(control) ==
  LET e == control.effect
      slots == CASE e = "One Pixel Chase" -> 2 [] e = "Two Pixel Chase" -> 3
                 [] e = "Three Pixel Chase" -> 4
      colors == IF e \in Chases THEN IF control.group = 0 THEN slots ELSE slots * 2 - 1
                ELSE control.color_count
  IN CASE e = "Rainbow" -> <<17>>
       [] e = "Pixel Fire" -> <<0, 16, 17>>
       [] OTHER -> [i \in 1..(colors + 1) |-> IF i <= colors THEN i - 1 ELSE 17]
PixelPages(control) == Range(PixelKeys(control))

(* _pixel_pages_complete                                                   *)
PixelComplete(pages) ==
  /\ 17 \in DOMAIN pages
  /\ "color_count" \in DOMAIN pages[17] => pages[17].color_count >= 2
  /\ "group" \in DOMAIN pages[17] => pages[17].group \in {0, 1}
  /\ PixelPages(pages[17]) \subseteq DOMAIN pages

(* Mutant: colours beyond those of the program now are sent too.           *)
PixelPayloadsAll(current, intensity) ==
  LET source == IF PixelComplete(current.pages) THEN current.pages
                ELSE PixelProgram(PixelDefaults(current.effect, TRUE)).pages
      keys   == SetToSortSeq(DOMAIN source, <)
      Set(k, page) == [n \in DOMAIN page |->
        CASE n = "playback" -> IF k = 17 THEN Running ELSE Continue
          [] n = "brightness" -> intensity
          [] OTHER -> page[n]]
  IN [i \in DOMAIN keys |-> EncodePixel(Set(keys[i], source[keys[i]]))]

(* _pixel_payloads, for an effect that is to run: the pages the program    *)
(* calls for, or the defaults, the control page last.                      *)
PixelPayloads(current, intensity) ==
  LET source == IF PixelComplete(current.pages) THEN current.pages
                ELSE PixelProgram(PixelDefaults(current.effect, TRUE)).pages
      keys   == PixelKeys(source[17])
      Set(k, page) == [n \in DOMAIN page |->
        CASE n = "playback" -> IF k = 17 THEN Running ELSE Continue
          [] n = "brightness" -> intensity
          [] OTHER -> page[n]]
  IN [i \in DOMAIN keys |-> EncodePixel(Set(keys[i], source[keys[i]]))]

-------------------------------------------------------------------------------
(* What the app shows, and the rebuilt packets.                            *)

(* intensity of the effect shown, NotGiven when none is known.             *)
ShownIntensity ==
  CASE shown.family = "none" -> NotGiven
    [] shown.family = "pixel" ->
         LET lit == {k \in DOMAIN shown.pages : "brightness" \in DOMAIN shown.pages[k]}
         IN IF lit = {} THEN NotGiven
            ELSE shown.pages[CHOOSE k \in lit : \A other \in lit : k <= other].brightness
    [] OTHER -> Given(shown.state, "intensity", NotGiven)

KeptIntensity ==
  IF ShownIntensity > 0 THEN ShownIntensity
  ELSE IF steady.intensity > 0 THEN steady.intensity ELSE 180

(* _default_effect_kelvin; NoLook is no state at all.                      *)
DefaultKelvin ==
  IF "kelvin" \in DOMAIN steady THEN Clamp(steady.kelvin, MinKelvin, MaxKelvin)
  ELSE (MinKelvin + MaxKelvin) \div 2

(* round(): to the nearest, ties to the even one.                          *)
Rounded(n, d) ==
  n \div d + IF \/ 2 * (n % d) > d
                \/ 2 * (n % d) = d /\ (n \div d) % 2 = 1
             THEN 1 ELSE 0

SameBrightness(actual, expected) ==
  LET Brightness(i) == Clamp(Rounded(i * 255, 1000), 1, 255)
  IN IF actual = NotGiven \/ expected = NotGiven THEN actual = expected
     ELSE Brightness(actual) = Brightness(expected)

CoarseShift(gm) == IF GmV2 = 1 THEN gm ELSE 10 * ((gm + 5) \div 10)

(* _effect_payload: the effect with what is asked, all else as shown.      *)
EffectPayload(state, patch) ==
  LET kept == IF state.effect # "Welding" /\ Given(state, "speed", 0) = 0
              THEN Restrict(state, DOMAIN state \ {"speed"}) ELSE state
  IN EncodeEffect(state.effect,
                  patch ++ kept ++ [kelvin |-> DefaultKelvin, hue |-> 0, gm |-> 100])

(* Mutant: the kelvin shown is rebuilt from the default.                   *)
Effect2PayloadsDefault(state, patch) ==
  Effect2(state.effect, patch ++ Restrict(state, DOMAIN state \ {"kelvin"}), state.on)

(* _effect2_payloads                                                       *)
Effect2Payloads(state, patch) == Effect2(state.effect, patch ++ state, state.on)

(* _decode_effect2_sequence                                                *)
Effect2Expected(packets) ==
  FoldLeft(LAMBDA state, packet : MergeEffect2(state, DecodeEffect2(packet)), <<>>, packets)

-------------------------------------------------------------------------------
(* Calls.  A call keeps, for the properties, what was asked, whether the   *)
(* fixture's program is known to be what the app showed, and that program. *)

Begins(family, effect, packets, want, exact, asked) ==
  /\ call.phase = "idle" /\ calls < MaxCalls
  /\ calls' = calls + 1 /\ told' = {}
  /\ call' = [phase |-> "send", family |-> family, effect |-> effect, packets |-> packets,
              sent |-> 0, want |-> want, exact |-> exact, fresh |-> {}, news |-> FALSE,
              asked |-> asked, clean |-> exact /\ told = DOMAIN fixture,
              base |-> Look(fixture), before |-> shown]
  /\ UNCHANGED <<fixture, steady, preferredGm, shown, mishaps>>

(* The value a setter makes of the one it is asked for.                    *)
Target(field, value, e) ==
  CASE field = "frequency" -> Clamp(value, 1, MaxRate(e))
    [] field = "kelvin" -> Clamp(MinKelvin + 50 * ((value - MinKelvin + 25) \div 50),
                                 MinKelvin, MaxKelvin)
    [] field = "gm" -> CoarseShift(Clamp(value, 0, 200))
    [] field = "hue" -> Clamp(value, 0, 360)
    [] field = "saturation" -> Clamp(value, 0, 100)
    [] OTHER -> value

(* async_set_effect_frequency, _kelvin, _hue, _saturation, _gm, _variant   *)
(* and _color_mode for a command-7 effect.                                 *)
SetEffect(field) ==
  /\ shown.family = "effect" /\ shown.state.on = 1
  /\ LET s == shown.state
     IN /\ CASE field = "mode" -> s.effect \in ColorModes1
             [] field = "variant" -> MaxVariant(s.effect) > 0
             [] OTHER -> field \in DOMAIN s
        /\ \E value \in Asked[field] :
             LET target == Target(field, value, s.effect)
                 patch == At(field, target) ++
                   CASE field = "gm" -> [gmFlag |-> GmV2]
                     [] field = "mode" /\ target = 1 /\ s.mode # 1 ->
                          [hue |-> Given(steady, "hue", 0),
                           saturation |-> Given(steady, "saturation", 100)]
                     [] field = "mode" /\ target = 0 /\ s.mode # 0 ->
                          [kelvin |-> DefaultKelvin, gm |-> CoarseShift(preferredGm),
                           gmFlag |-> GmV2]
                     [] OTHER -> <<>>
                 packet == EffectPayload(s, patch)
             IN /\ field = "variant" => target <= MaxVariant(s.effect)
                /\ Begins("effect", s.effect, <<packet>>, DecodeEffect(packet), TRUE, patch)

(* The setters for a command-34 effect, _async_update_effect2_unlocked; an *)
(* effect without app defaults makes the call fail before anything is sent. *)
SetEffect2(field) ==
  /\ shown.family = "effect2" /\ shown.state.on = 1 /\ shown.state.effect \in Defaulted
  /\ field \in DOMAIN shown.state \ {"mode", "variant"}
  /\ \E value \in Asked[field] :
       LET s == shown.state
           target == CASE field = "gm" -> Clamp(value, 0, 200)
                       [] field = "frequency" -> Clamp(value, 1, 11)
                       [] OTHER -> Target(field, value, s.effect)
           packets == Effect2Payloads(s, At(field, target))
       IN Begins("effect2", s.effect, packets, Effect2Expected(packets), TRUE, At(field, target))

(* async_apply_effect, a command-7 effect: the running one at another      *)
(* brightness, or another one with its defaults.                           *)
ApplyEffect(e, given) ==
  /\ e \in Effects1
  /\ LET same == shown.family = "effect" /\ shown.state.effect = e
         kept == IF same THEN shown.state.intensity ELSE KeptIntensity
         intensity == IF given = NotGiven THEN kept ELSE given
         hsi == e \in ColorModes1 /\ (steady = NoLook \/ steady.hsi)
         packet == IF same THEN EffectPayload(shown.state, [intensity |-> intensity])
                   ELSE EncodeEffect(e, [intensity |-> intensity, frequency |-> 5,
                          kelvin |-> DefaultKelvin, mode |-> IF hsi THEN 1 ELSE 0,
                          hue |-> Given(steady, "hue", 0),
                          saturation |-> Given(steady, "saturation", 100),
                          gm |-> CoarseShift(preferredGm), gmFlag |-> GmV2])
     IN Begins("effect", e, <<packet>>, DecodeEffect(packet), same, [intensity |-> intensity])

(* _async_apply_effect2_unlocked                                           *)
ApplyEffect2(e, given) ==
  /\ e \in Defaulted
  /\ LET same == shown.family = "effect2" /\ shown.state.effect = e
         intensity == IF given = NotGiven THEN KeptIntensity ELSE given
         packets == IF same THEN Effect2Payloads([shown.state EXCEPT !.on = 1],
                                                 [intensity |-> intensity])
                    ELSE Effect2(e, [intensity |-> intensity, mode |-> 1,
                           kelvin |-> DefaultKelvin, gm |-> preferredGm,
                           hue |-> Given(steady, "hue", 1),
                           saturation |-> Given(steady, "saturation", 100),
                           center_kelvin |-> DefaultKelvin, min_kelvin |-> MinKelvin,
                           max_kelvin |-> MaxKelvin], 1)
     IN Begins("effect2", e, packets, Effect2Expected(packets), same,
               [intensity |-> intensity])

(* _async_apply_pixel_effect_unlocked                                      *)
ApplyPixel(e, given) ==
  /\ e \in Pixels
  /\ LET same == shown.family = "pixel" /\ Given(shown, "effect", "none") = e
         intensity == IF given = NotGiven THEN KeptIntensity ELSE given
         packets == PixelPayloads(IF same THEN shown ELSE PixelProgram(PixelDefaults(e, TRUE)),
                                  intensity)
     IN Begins("pixel", e, packets,
               PixelProgram([i \in DOMAIN packets |-> DecodePixel(packets[i])]), same,
               [brightness |-> intensity])

(* async_apply_effect("off"), _async_exit_effect                           *)
ExitEffect(given) ==
  /\ steady # NoLook \/ shown.family # "none"
  /\ LET kept == IF steady # NoLook THEN steady.intensity
                 ELSE IF ShownIntensity > 0 THEN ShownIntensity ELSE 180
         intensity == IF given = NotGiven THEN kept ELSE given
         packet == IF steady # NoLook /\ steady.hsi
                   THEN Hsi(steady.hue, steady.saturation, intensity)
                   ELSE Cct(IF steady # NoLook THEN steady.kelvin ELSE DefaultKelvin,
                            intensity, preferredGm, GmV2)
     IN Begins("steady", "off", <<packet>>, DecodeStatus(packet), FALSE,
               [intensity |-> intensity])

-------------------------------------------------------------------------------
(* Sending and confirming.                                                 *)

Advance(known) ==
  [call EXCEPT !.sent = @ + 1, !.clean = @ /\ known,
               !.phase = IF call.sent + 1 = Len(call.packets) THEN "confirm" ELSE "send"]

(* The fixture takes the page; a page of another effect starts a program   *)
(* of its own.  A look turns the output on with it.                        *)
Deliver ==
  /\ call.phase = "send" /\ call.sent + 1 \in DOMAIN call.packets
  /\ LET packet == call.packets[call.sent + 1]
         taken  == IF packet.command \in {1, 2} THEN [packet EXCEPT !.bits = @ \cup {8}]
                   ELSE packet
         Same(other) == other.command = packet.command /\ packet.command \in {7, 33, 34}
                        /\ Value(other, 64, 8) = Value(packet, 64, 8)
         goesOn == \E k \in DOMAIN fixture : Same(fixture[k])
     IN /\ fixture' = At(Page(taken), taken) ++ IF goesOn THEN fixture ELSE <<>>
        /\ told' = IF goesOn THEN told \ {Page(taken)} ELSE {}
  /\ call' = Advance(TRUE)
  /\ UNCHANGED <<steady, preferredGm, shown, calls, mishaps>>

Lose ==
  /\ call.phase = "send" /\ mishaps < MaxMishaps
  /\ mishaps' = mishaps + 1 /\ call' = Advance(FALSE)
  /\ UNCHANGED <<fixture, told, steady, preferredGm, shown, calls>>

(* The connection is lost: the call raises between two packets.            *)
SendFails ==
  /\ call.phase = "send" /\ mishaps < MaxMishaps
  /\ mishaps' = mishaps + 1 /\ call' = Idle
  /\ UNCHANGED <<fixture, told, steady, preferredGm, shown, calls>>

(* _on_access_message: what a report of each family does to what is shown. *)
Show(s, command) ==
  /\ steady' = IF command \in {1, 2} THEN s ELSE steady
  /\ preferredGm' = IF command = 2 THEN s.gm ELSE preferredGm
  /\ shown' = CASE command \in {1, 2} -> NoEffect
                [] command = 7 -> [family |-> "effect", state |-> s]
                [] command = 34 ->
                     [family |-> "effect2",
                      state |-> MergeEffect2(IF shown.family = "effect2" THEN shown.state
                                             ELSE <<>>, s)]
                [] command = 33 -> MergePixel(shown, s)

(* A page is reported, by itself or because a status request asked.  The   *)
(* page generations of pixel effects start over with another effect.       *)
Report(k) ==
  /\ k \in DOMAIN fixture
  /\ LET s == Decoded(fixture[k])
         goesOn == /\ fixture[k].command = 33 /\ shown.family = "pixel"
                   /\ Given(shown, "effect", "none") = s.effect
     IN /\ Show(s, fixture[k].command)
        /\ call' = IF call.phase = "idle" THEN call
                   ELSE [call EXCEPT !.news = call.phase = "confirm",
                           !.fresh = IF fixture[k].command # 33 THEN {}
                                     ELSE IF goesOn THEN @ \cup {k} ELSE {k}]
  /\ told' = told \cup {k}
  /\ UNCHANGED <<fixture, calls, mishaps>>

(* The predicate each call hands to _async_confirm_primary_state.          *)
Matches ==
  CASE call.family = "steady" ->
         /\ shown = NoEffect /\ steady.on = 1
         /\ SameBrightness(steady.intensity, call.asked.intensity)
    [] call.family \in {"effect", "effect2"} ->
         /\ shown.family = call.family
         /\ SameBrightness(ShownIntensity, Given(call.want, "intensity", NotGiven))
         /\ IF call.exact
            THEN Restrict(shown.state, DOMAIN shown.state \ {"intensity"}) =
                 Restrict(call.want, DOMAIN call.want \ {"intensity"})
            ELSE shown.state.on = 1 /\ shown.state.effect = call.effect
    [] call.family = "pixel" ->
         /\ shown.family = "pixel" /\ Given(shown, "effect", "none") = call.effect
         /\ 17 \in call.fresh /\ shown.playback \notin {Stop, Continue}
         /\ \A k \in call.fresh : "brightness" \in DOMAIN shown.pages[k] =>
              SameBrightness(shown.pages[k].brightness, call.asked.brightness)

(* Mutant: pages shown before the call are kept over the pages sent.       *)
ConfirmedStale ==
  /\ call.phase = "confirm" /\ call.news /\ Matches
  /\ shown' = IF call.family # "pixel" THEN shown
              ELSE FoldLeft(MergePixel, shown,
                     [i \in 1..Len(call.packets) |-> DecodePixel(call.packets[i])])
  /\ call' = Idle
  /\ UNCHANGED <<fixture, told, steady, preferredGm, calls, mishaps>>

(* A fresh report matches.  For a pixel effect the pages sent stand in for *)
(* those the fixture has not reported since (device.py:1372-1391); all of  *)
(* them belong to the effect that was asked for, the control page among    *)
(* the fresh ones.                                                         *)
Confirmed ==
  /\ call.phase = "confirm" /\ call.news /\ Matches
  /\ LET reported == [k \in call.fresh |-> shown.pages[k]]
     IN shown' = IF call.family # "pixel" THEN shown
                 ELSE [family |-> "pixel", effect |-> call.effect,
                       pages |-> reported ++ call.want.pages,
                       playback |-> reported[17].playback]
  /\ call' = Idle
  /\ UNCHANGED <<fixture, told, steady, preferredGm, calls, mishaps>>

(* Three status requests without a matching report: the call raises.       *)
Unconfirmed ==
  /\ call.phase = "confirm"
  /\ call' = Idle
  /\ UNCHANGED <<fixture, told, steady, preferredGm, shown, calls, mishaps>>

PanelTurns ==
  /\ mishaps < MaxMishaps
  /\ mishaps' = mishaps + 1
  /\ fixture' \in Turns /\ fixture' # fixture /\ told' = {}
  /\ call' = IF call.phase = "idle" THEN call ELSE [call EXCEPT !.clean = FALSE]
  /\ UNCHANGED <<steady, preferredGm, shown, calls>>

-------------------------------------------------------------------------------
(* The programs outside Turns are there for their packets: a behaviour     *)
(* that starts from one of them meets no panel turn and no loss.           *)
Init ==
  /\ fixture \in Programs /\ told = {}
  /\ steady = NoLook /\ preferredGm = 100 /\ shown = NoEffect
  /\ call = Idle /\ calls = 0
  /\ mishaps = IF fixture \in Turns THEN 0 ELSE MaxMishaps

Next ==
  \/ \E field \in DOMAIN Asked \ {"intensity"} : SetEffect(field) \/ SetEffect2(field)
  \/ \E given \in Asked["intensity"] \cup {NotGiven} :
       \/ \E e \in Effects : ApplyEffect(e, given) \/ ApplyEffect2(e, given)
                               \/ ApplyPixel(e, given)
       \/ ExitEffect(given)
  \/ Deliver \/ Lose \/ SendFails
  \/ \E k \in DOMAIN fixture : Report(k)
  \/ Confirmed \/ Unconfirmed \/ PanelTurns

Spec == Init /\ [][Next]_vars

-------------------------------------------------------------------------------
(* Properties.                                                             *)

(* The pages a call sends again: of a pixel effect those its control page *)
(* calls for, and none as they were when one of them is missing.           *)
Rebuilt(family, base) ==
  IF family # "pixel" THEN DOMAIN base
  ELSE IF PixelComplete(base) THEN PixelPages(base[17]) ELSE {}

(* A page with the parameters asked for as asked and all others as before; *)
(* whether it runs is not a parameter.                                     *)
Keeps(now, before, asked) ==
  /\ "mode" \notin DOMAIN asked => DOMAIN now = DOMAIN before
  /\ \A n \in DOMAIN now \ {"playback", "state", "on"} :
       IF n \in DOMAIN asked THEN now[n] = asked[n]
       ELSE n \in DOMAIN before => now[n] = before[n]
  /\ "on" \in DOMAIN now => now.on = 1

(* A call that changes one parameter of the running effect, or its         *)
(* brightness, leaves the fixture with that parameter as asked and every   *)
(* other one as it was, if the app had heard all of the program and no     *)
(* packet was lost: nothing is dropped, shifted or replaced by a default   *)
(* between report, rebuilt packets and fixture (device.py:993, 1037, 225). *)
KeepsTheRest ==
  call.phase = "confirm" /\ call.clean =>
    \A k \in Rebuilt(call.family, call.base) :
      k \in DOMAIN fixture /\ Keeps(Decoded(fixture[k]), call.base[k], call.asked)

(* Once every page of the program was reported, the app shows what the     *)
(* fixture runs, and only that: pages of another effect, of a longer       *)
(* program or of before the change are gone or not used (device.py:136,    *)
(* 3190-3285), and pages the app sent give way to reported ones            *)
(* (device.py:1376-1387).                                                  *)
ShownIsReported ==
  told = DOMAIN fixture =>
    LET look == Look(fixture)
        command == fixture[CHOOSE k \in DOMAIN fixture : TRUE].command
    IN CASE command \in {1, 2} -> shown = NoEffect /\ steady = look[0]
         [] command = 7 -> shown = [family |-> "effect", state |-> look[0]]
         [] command = 34 ->
              /\ shown.family = "effect2"
              /\ \A k \in DOMAIN look : \A n \in DOMAIN look[k] \ {"package", "state", "on"} :
                   Given(shown.state, n, NotGiven) = look[k][n]
         [] command = 33 ->
              /\ shown.family = "pixel"
              /\ \A k \in DOMAIN look : shown.pages[k] = look[k]
              /\ 17 \in DOMAIN look => shown.playback = look[17].playback

(* A pixel program is sent whole: the pages its own control page calls     *)
(* for, the control page last and alone in starting playback, and either   *)
(* all of them as shown or all of them the app's defaults, never a mixture *)
(* ("rather than inventing missing colour pages", device.py:276).          *)
PixelProgramWhole ==
  call.phase = "send" /\ call.family = "pixel" =>
    LET sent == [i \in DOMAIN call.packets |-> DecodePixel(call.packets[i])]
        pages == PixelProgram(sent).pages
        default == PixelProgram(PixelDefaults(call.effect, TRUE)).pages
        Plain(page) == Restrict(page, DOMAIN page \ {"playback", "brightness"})
        From(source) == \A k \in DOMAIN pages : k \in DOMAIN source /\
                          Plain(pages[k]) = Plain(source[k])
    IN /\ PageKey(sent[Len(sent)]) = 17
       /\ DOMAIN pages = PixelPages(pages[17])
       /\ \A i \in DOMAIN sent : sent[i].playback = IF i = Len(sent) THEN Running ELSE Continue
       /\ \/ From(default)
          \/ call.exact /\ From(call.before.pages)

(* A parameter is offered, and accepted from the user, only if the effect  *)
(* that was reported carries it: "Whether the active effect carries an     *)
(* adjustable HSI hue" (device.py:754, and so for the others).             *)
OfferedIsCarried ==
  told = DOMAIN fixture /\ shown.family = "effect2" =>
    \A n \in {"frequency", "kelvin", "hue", "saturation", "gm"} \cap DOMAIN shown.state :
      \E k \in DOMAIN fixture : n \in DOMAIN Decoded(fixture[k])

===============================================================================
