------------------------------- MODULE Input -------------------------------
(***************************************************************************)
(* Mouse and keyboard: the viewer's window, what the viewer makes of it    *)
(* once every turn of its loop, the control stream, and the Windows host   *)
(* that injects it.  The window (minifb), the user and Windows are         *)
(* modelled from how the code calls them; nobody else uses the host's      *)
(* mouse and keyboard.                                                     *)
(***************************************************************************)
EXTENDS Keyboard, Integers, SequencesExt, FiniteSets

CONSTANTS
  Desktop, Placeholder,  \* <<width, height>> of the captured pictures and of the first one
  Screen,                \* <<width, height>> Windows tells the host's process
  Windows,               \* sizes the user gives the window
  UserButton, UserKey,   \* the buttons and keys the user presses
  Scrolls,               \* <<horizontal, vertical>> steps of the wheel, in parts of a unit
  Fraction,              \* parts of a unit
  MaxWheel,              \* units in one event
  MaxActs, MaxStream,    \* bounds: what the user does, messages under way
  None,
  Faults

Button == {1, 2, 4}
Key == { map_key[k] : k \in UserKey \ Unmapped }

ASSUME InputAssumption ==
  /\ {Desktop, Placeholder, Screen} \cup Windows \subseteq (Nat \ {0}) \X (Nat \ {0})
  /\ UserButton \subseteq Button
  /\ UserKey \subseteq WindowKey \cup Unmapped /\ IsFiniteSet(UserKey)
  /\ Scrolls \subseteq Int \X Int /\ Fraction \in Nat \ {0}
  /\ {MaxWheel, MaxActs, MaxStream} \subseteq Nat
  /\ None \notin [buttons : SUBSET Button, pressed_keys : Seq(KeyboardKey)]

VARIABLES
  user,          \* [mouse, buttons, keys, window]: what the user does and holds
  acts,
  viewer,        \* open, or over
  desktop_size,  \* known or not
  frame_size,    \* of the picture in the window
  window_keys,   \* the keys the window saw down at its last update
  last_pointer, scroll_remainder,
  stream,        \* messages on the control stream: [event, held]
  link,
  injector,      \* [buttons, pressed_keys], or None when it has been dropped
  host,          \* [pointer, buttons, keys]: the host's own desktop
  scrolled, turned, reported,   \* history: see the properties
  refused                       \* history: an event was found invalid

viewerVars == <<viewer, desktop_size, frame_size, window_keys, last_pointer, scroll_remainder>>
hostVars == <<injector, host, turned>>
history == <<scrolled, reported, refused>>
vars == <<user, acts, viewerVars, stream, link, hostVars, history>>

Plus(v, w) == <<v[1] + w[1], v[2] + w[2]>>

Init ==
  /\ user = [mouse |-> <<0, 0>>, buttons |-> {}, keys |-> {}, window |-> Placeholder]
  /\ acts = 0
  /\ viewer = "open" /\ desktop_size = None /\ frame_size = Placeholder
  /\ window_keys = {} /\ last_pointer = None /\ scroll_remainder = <<0, 0>>
  /\ stream = <<>> /\ link = TRUE
  /\ injector = [buttons |-> {}, pressed_keys |-> <<>>]
  /\ host = [pointer |-> <<0, 0>>, buttons |-> {}, keys |-> {}]
  /\ scrolled = <<0, 0>> /\ turned = <<0, 0>> /\ reported = {} /\ refused = FALSE

(***************************************************************************)
(* The user                                                                *)
(***************************************************************************)
Inside(size) == (0..size[1] - 1) \X (0..size[2] - 1)
Toggled(S, e) == IF e \in S THEN S \ {e} ELSE S \cup {e}

\* What the user does after the host has gone is left out.
Acts(next) ==
  /\ viewer = "open" /\ injector # None /\ acts < MaxActs
  /\ acts' = acts + 1
  /\ user' = next
  /\ UNCHANGED <<viewerVars, stream, link, hostVars, history>>

UserMoves   == \E p \in Inside(user.window) : Acts([user EXCEPT !.mouse = p])
UserClicks  == \E b \in UserButton : Acts([user EXCEPT !.buttons = Toggled(@, b)])
UserTypes   == \E k \in UserKey : Acts([user EXCEPT !.keys = Toggled(@, k)])
UserResizes == \E w \in Windows : Acts([user EXCEPT !.window = w, !.mouse = <<0, 0>>])

(***************************************************************************)
(* The window                                                              *)
(***************************************************************************)
Clamp(n, low, high) == IF n < low THEN low ELSE IF n > high THEN high ELSE n

\* Mutant: one beyond the last.
LastPixel_Beyond(length) == length

LastPixel(length) == length - 1

\* Mutant: the black bars are taken for a part of the picture.
map_pointer_to_frame_Stretched(mouse, window, frame) ==
  << Clamp((mouse[1] * frame[1]) \div window[1], 0, LastPixel(frame[1])),
     Clamp((mouse[2] * frame[2]) \div window[2], 0, LastPixel(frame[2])) >>

\* The picture is fitted into the window; the offsets are those of its black bars.
\* The code's floats are exact fractions here.
map_pointer_to_frame(mouse, window, frame) ==
  LET fw == frame[1]  fh == frame[2]  ww == window[1]  wh == window[2]
      \* the axis without bars
      Along(m, w, f) == (Clamp(m, 0, w) * f) \div w
      \* the other: m less half of what is left over, as a multiple of 1 / (2 * f)
      Across(m, w, v, f, g) == Clamp(2 * f * m - (v * f - w * g), 0, 2 * w * g) \div (2 * w)
  IN  IF fw * wh > ww * fh
      THEN << Clamp(Along(mouse[1], ww, fw), 0, LastPixel(fw)),
              Clamp(Across(mouse[2], ww, wh, fw, fh), 0, LastPixel(fh)) >>
      ELSE << Clamp(Across(mouse[1], wh, ww, fh, fw), 0, LastPixel(fw)),
              Clamp(Along(mouse[2], wh, fh), 0, LastPixel(fh)) >>

Truncated(n) == IF n < 0 THEN -((-n) \div Fraction) ELSE n \div Fraction

\* Mutant: what does not fit into one event is forgotten.
Remainder_Cut(remainder) ==
  IF remainder < 0 THEN -((-remainder) % Fraction) ELSE remainder % Fraction

take_wheel_delta(remainder) == Clamp(Truncated(remainder), -MaxWheel, MaxWheel)
Remainder(remainder) == remainder - Fraction * take_wheel_delta(remainder)

Pointer == [kind |-> "Pointer",
            at |-> map_pointer_to_frame(user.mouse, user.window, frame_size),
            buttons |-> user.buttons]

Wheel(remainder) ==
  [kind |-> "Wheel", delta |-> <<take_wheel_delta(remainder[1]), take_wheel_delta(remainder[2])>>]

KeyEvents(keys, pressed) ==
  { [kind |-> "Key", key |-> map_key[k], pressed |-> pressed] : k \in keys \ Unmapped }

\* A key that went down since the window's last update is new; one that is held
\* repeats now and then.
Pressed(repeats) == (user.keys \ window_keys) \cup (repeats \cap user.keys)
Released == window_keys \ user.keys

(***************************************************************************)
(* The viewer                                                              *)
(***************************************************************************)
\* The packet of the first keyframe tells the size of the desktop; its picture, if it
\* can be decoded, takes the placeholder's place, in a new window if it has another
\* size.
FirstKeyframe(decodes) ==
  /\ viewer = "open" /\ frame_size = Placeholder
  /\ ~decodes => "Undecodable" \in Faults /\ desktop_size = None
  /\ desktop_size' = Desktop
  /\ frame_size' = IF decodes THEN Desktop ELSE frame_size
  /\ IF decodes /\ Desktop # Placeholder
     THEN /\ window_keys' = {}
          /\ \E mouse \in Inside(Desktop) :
               user' = [user EXCEPT !.window = Desktop, !.mouse = mouse]
     ELSE /\ window_keys' = IF decodes THEN user.keys ELSE window_keys
          /\ UNCHANGED user
  /\ UNCHANGED <<acts, viewer, last_pointer, scroll_remainder, stream, link, hostVars, history>>

\* A picture, a region or a cursor that is shown updates the window as well, and nothing
\* is drained: the next update has forgotten the transitions of keys this one saw, and
\* the steps of the wheel.
Presents ==
  /\ viewer = "open" /\ link
  /\ window_keys' = user.keys
  /\ UNCHANGED <<user, acts, viewer, desktop_size, frame_size, last_pointer, scroll_remainder,
                 stream, link, hostVars, history>>

validate_input(event, size) ==
  CASE event.kind = "Pointer" -> event.at \in Inside(size)
    [] event.kind = "Wheel" -> \A i \in 1..2 : event.delta[i] \in -MaxWheel..MaxWheel
    [] event.kind = "Key" -> TRUE

\* What goes out: the events in front of the first that is not valid.
Accepted(events) ==
  LET valid == { n \in 0..Len(events) : \A i \in 1..n : validate_input(events[i], Desktop) }
  IN  SubSeq(events, 1, CHOOSE n \in valid : \A m \in valid : m <= n)

\* Mutant: the pointer goes first.
Order_PointerFirst(pointer, others) == pointer \o others

\* The last pointer event of a turn follows the others.
Order(pointer, others) == others \o pointer

\* With an event goes, for ClickHasItsModifiers alone, what the viewer saw held.
Message(event, held) == [event |-> event, held |-> held]

\* One turn of the viewer's loop: pump_events, drain_input_events, validate and send.
\* Before the desktop's size is known the window is updated and nothing is drained.
Turn(scroll, repeats) ==
  LET remainder == Plus(scroll_remainder, scroll)
      wheel   == IF Wheel(remainder).delta = <<0, 0>> THEN <<>> ELSE <<Wheel(remainder)>>
      pointer == IF Pointer = last_pointer THEN <<>> ELSE <<Pointer>>
  IN
  /\ viewer = "open" /\ link
  /\ Len(stream) <= MaxStream
  /\ window_keys' = user.keys
  /\ IF desktop_size = None
     THEN UNCHANGED <<viewer, last_pointer, scroll_remainder, stream, history>>
     ELSE \E pressed \in SetToSeqs(KeyEvents(Pressed(repeats), TRUE)),
             released \in SetToSeqs(KeyEvents(Released, FALSE)) :
          LET events == Order(pointer, wheel \o pressed \o released)
              sent == Accepted(events)
          IN  /\ last_pointer' = Pointer
              /\ scroll_remainder' = <<Remainder(remainder[1]), Remainder(remainder[2])>>
              /\ scrolled' = Plus(scrolled, scroll)
              /\ reported' = (reported \cup { e.key : e \in KeyEvents(Pressed(repeats), TRUE) })
                             \ { e.key : e \in KeyEvents(Released, FALSE) }
              /\ stream' = stream \o [i \in DOMAIN sent |-> Message(sent[i], reported')]
              /\ viewer' = IF sent = events THEN "open" ELSE "over"
              /\ refused' = (refused \/ sent # events)
  /\ UNCHANGED <<user, desktop_size, frame_size, link, hostVars>>

UserScrolls ==
  /\ acts < MaxActs /\ acts' = acts + 1
  /\ \E scroll \in Scrolls : Turn(scroll, {})

ViewerTurns(repeats) == Turn(<<0, 0>>, repeats) /\ UNCHANGED acts

\* The user closes the window.
ViewerCloses ==
  /\ viewer = "open"
  /\ viewer' = "over"
  /\ stream' = Append(stream, Message([kind |-> "Close"], reported))
  /\ UNCHANGED <<user, acts, desktop_size, frame_size, window_keys, last_pointer,
                 scroll_remainder, link, hostVars, history>>

(***************************************************************************)
(* The host                                                                *)
(***************************************************************************)
Call(does, what) == [does |-> does, what |-> what]

\* The call that changes a button, if it changes.
Change(mask, buttons) ==
  IF mask \in buttons \ injector.buttons THEN <<Call("down", mask)>>
  ELSE IF mask \in injector.buttons \ buttons THEN <<Call("up", mask)>> ELSE <<>>

Rotate(wheel, delta) == IF delta = 0 THEN <<>> ELSE <<Call(wheel, delta)>>

\* The SendInput calls of an event, in their order.
Calls(event) ==
  CASE event.kind = "Pointer" ->
         <<Call("move", event.at)>> \o Change(1, event.buttons) \o Change(2, event.buttons)
                                    \o Change(4, event.buttons)
    [] event.kind = "Wheel" -> Rotate("hwheel", event.delta[1]) \o Rotate("wheel", event.delta[2])
    [] event.kind = "Key" ->
         <<Call(IF event.pressed THEN "press" ELSE "release", windows_key_mapping[event.key])>>

What(calls, does) == { calls[n].what : n \in { m \in DOMAIN calls : calls[m].does = does } }
Only(S, otherwise) == IF S = {} THEN otherwise ELSE CHOOSE x \in S : TRUE

\* What calls do to the host's desktop; no two of an event, and none at the end of
\* the injector, are about the same button, key or wheel.
AfterAll(h, calls) ==
  [pointer |-> Only(What(calls, "move"), h.pointer),
   buttons |-> (h.buttons \cup What(calls, "down")) \ What(calls, "up"),
   keys    |-> (h.keys \cup What(calls, "press")) \ What(calls, "release")]

Turned(calls) == <<Only(What(calls, "hwheel"), 0), Only(What(calls, "wheel"), 0)>>

\* Drop: keys in reverse order, then buttons.  The error of a call that fails is ignored.
Lift(mask, i) == IF mask \in i.buttons THEN <<Call("up", mask)>> ELSE <<>>
Releases(i) ==
  [n \in DOMAIN i.pressed_keys |-> Call("release", windows_key_mapping[Reverse(i.pressed_keys)[n]])]
  \o Lift(1, i) \o Lift(2, i) \o Lift(4, i)

Dropped(h) ==
  LET lifted == AfterAll(h, Releases(injector)) IN
  /\ \E keys \in SUBSET (h.keys \ lifted.keys), buttons \in SUBSET (h.buttons \ lifted.buttons) :
       /\ keys # {} \/ buttons # {} => "SendInputFails" \in Faults
       /\ host' = [lifted EXCEPT !.keys = @ \cup keys, !.buttons = @ \cup buttons]
  /\ injector' = None

\* Mutant: a key that repeats is recorded once more, and a release forgets the oldest.
Recorded_Twice(event) ==
  CASE event.kind = "Pointer" -> [injector EXCEPT !.buttons = event.buttons]
    [] event.kind = "Wheel" -> injector
    [] event.kind = "Key" ->
         [injector EXCEPT !.pressed_keys = IF event.pressed THEN Append(@, event.key) ELSE SubSeq(@, 2, Len(@))]

\* What the injector remembers once every call of an event has succeeded.  A key is
\* recorded once, so that its first place is every place to remove it from.
Recorded(event) ==
  CASE event.kind = "Pointer" -> [injector EXCEPT !.buttons = event.buttons]
    [] event.kind = "Wheel" -> injector
    [] event.kind = "Key" ->
         LET keys == injector.pressed_keys
         IN  [injector EXCEPT !.pressed_keys =
                IF ~event.pressed THEN RemoveFirst(keys, event.key)
                ELSE IF Contains(keys, event.key) THEN keys ELSE Append(keys, event.key)]

\* The host checks an event once more, against the size of the screen Windows tells it,
\* which is that of the captured pictures on an unscaled primary display.  Any call may
\* fail when Windows does not let it through; the error ends the task, and the injector
\* goes with it.
HostInjects(done) ==
  LET event == Head(stream).event
      calls == Calls(event)
  IN
  /\ injector # None /\ stream # <<>> /\ event.kind # "Close"
  /\ stream' = Tail(stream)
  /\ IF ~validate_input(event, Screen)
     THEN /\ done = 0
          /\ Dropped(host) /\ link' = FALSE /\ refused' = TRUE /\ UNCHANGED turned
     ELSE /\ done \in 0..Len(calls)
          /\ done = Len(calls) \/ "SendInputFails" \in Faults
          /\ turned' = Plus(turned, Turned(SubSeq(calls, 1, done)))
          /\ IF done = Len(calls)
             THEN host' = AfterAll(host, calls) /\ injector' = Recorded(event) /\ UNCHANGED link
             ELSE Dropped(AfterAll(host, SubSeq(calls, 1, done))) /\ link' = FALSE
          /\ UNCHANGED refused
  /\ UNCHANGED <<user, acts, viewerVars, scrolled, reported>>

\* Mutant: the task that ends leaves everything as it is.
HostLets_Go == injector' = None /\ UNCHANGED host

HostLets == Dropped(host)

Ends ==
  /\ injector # None
  /\ HostLets
  /\ link' = FALSE
  /\ UNCHANGED <<user, acts, viewerVars, stream, turned, history>>

\* The task ends with Close or with the connection.
HostStops ==
  /\ \/ stream # <<>> /\ Head(stream).event.kind = "Close"
     \/ stream = <<>> /\ ~link
  /\ Ends

\* Another task of the host failed.
HostFails == "HostFails" \in Faults /\ Ends

LinkBreaks ==
  /\ "LinkBreaks" \in Faults
  /\ link /\ link' = FALSE
  /\ \E n \in 0..Len(stream) : stream' = SubSeq(stream, 1, n)
  /\ UNCHANGED <<user, acts, viewerVars, hostVars, history>>

Next ==
  \/ UserMoves \/ UserClicks \/ UserTypes \/ UserResizes \/ UserScrolls
  \/ \E decodes \in BOOLEAN : FirstKeyframe(decodes)
  \/ \E repeats \in SUBSET user.keys : ViewerTurns(repeats)
  \/ Presents \/ ViewerCloses
  \/ \E done \in 0..5 : HostInjects(done)
  \/ HostStops \/ HostFails \/ LinkBreaks

Spec == Init /\ [][Next]_vars

\* Both loops go on turning: what the viewer shows leaves it the time for a full turn
\* again and again.  A key that is held need not repeat.
FairSpec ==
  /\ Spec
  /\ WF_vars(ViewerTurns({}))
  /\ WF_vars(\E done \in 0..5 : HostInjects(done)) /\ WF_vars(HostStops)

(***************************************************************************)
(* Properties                                                              *)
(***************************************************************************)
TypeOK ==
  /\ user.mouse \in Inside(user.window) /\ user.buttons \subseteq Button
  /\ user.keys \subseteq UserKey /\ window_keys \subseteq UserKey
  /\ acts \in 0..MaxActs /\ viewer \in {"open", "over"} /\ link \in BOOLEAN
  /\ desktop_size \in {None, Desktop} /\ frame_size \in {Placeholder, Desktop}
  /\ \A i \in 1..2 : scroll_remainder[i] \in Int
  /\ host.pointer \in Inside(Screen) /\ host.buttons \subseteq Button
  /\ host.keys \subseteq { windows_key_mapping[k] : k \in Key }
  /\ injector # None => injector.buttons \subseteq Button /\ IsInjective(injector.pressed_keys)
  /\ reported \subseteq Key /\ refused \in BOOLEAN

\* "held inputs are released if the control session closes unexpectedly"
\* (README.md:52-55): no key and no button stays down on the host once its control
\* task is gone.
NothingStaysHeld == injector = None => host.keys = {} /\ host.buttons = {}

\* What the window reports is never outside the pictures the viewer checks it against,
\* nor outside the screen the host checks it against if the pictures fit into it: no
\* user ends a session by pointing.
OwnInputIsAccepted == ~refused

\* Of the wheel's steps the viewer drained none is lost and none is made up, whatever was
\* cut to whole units, split between events or is still under way.  (The steps seen while
\* a picture is shown are not drained.)
Steps(message, i) == IF message.event.kind = "Wheel" THEN message.event.delta[i] ELSE 0
UnderWay(messages, i) ==
  LET sum[n \in 0..Len(messages)] == IF n = 0 THEN 0 ELSE sum[n - 1] + Steps(messages[n], i)
  IN  sum[Len(messages)]
DrainedWheelIsConserved ==
  \A i \in 1..2 :
    injector # None /\ link =>
      Fraction * (turned[i] + UnderWay(stream, i)) + scroll_remainder[i] = scrolled[i]

\* A click is injected while the host holds the keys the viewer saw held in the turn
\* it saw the click: Ctrl and click stay together.
ClickHasItsModifiers ==
  [][\A done \in 0..5 :
       HostInjects(done) /\ Head(stream).event.kind = "Pointer" /\ host'.buttons # host.buttons
       /\ injector' # None
       => host'.keys = { windows_key_mapping[k] : k \in Head(stream).held }]_vars

\* The rectangle in which the window shows pixel p holds the mouse, or p is at the
\* border and the mouse in the black bar next to it.
Under(p, mouse, window, frame) ==
  LET scale == IF window[1] * frame[2] < window[2] * frame[1]
               THEN <<window[1], frame[1]>> ELSE <<window[2], frame[2]>>
      Edge(n, i) == window[i] * scale[2] - frame[i] * scale[1] + 2 * n * scale[1]
  IN  \A i \in 1..2 :
        /\ p[i] = 0 \/ Edge(p[i], i) <= 2 * scale[2] * mouse[i]
        /\ p[i] = frame[i] - 1 \/ 2 * scale[2] * mouse[i] < Edge(p[i] + 1, i)

Agrees ==
  /\ Under(host.pointer, user.mouse, user.window, Desktop)
  /\ host.buttons = user.buttons
  /\ host.keys = { windows_key_mapping[k] : k \in reported }
  /\ \A i \in 1..2 : scroll_remainder[i] \in -(Fraction - 1)..Fraction - 1

\* Once the user rests, the host's pointer ends under the user's, and the host holds
\* the buttons the user holds and the keys the viewer reported last, unless the session
\* ends.
HostAgrees ==
  <>[](viewer = "over" \/ injector = None \/ ~link \/ frame_size = Placeholder \/ Agrees)

\* Without a press that waits for a repeat: what the user has let go of does not stay
\* down on the host.
ReleasesArrive ==
  <>[](viewer = "over" \/ injector = None \/ ~link \/
       host.keys \subseteq { windows_key_mapping[map_key[k]] : k \in user.keys \ Unmapped })
=============================================================================
