----------------------------- MODULE InputProofs -----------------------------
(***************************************************************************)
(* What the user does in the viewer's window is input the host accepts,    *)
(* whole as far as the wheel goes, and let go of when the host ends.       *)
(***************************************************************************)
EXTENDS Input, FiniteSetTheorems, SequenceTheorems, WellFoundedInduction, TLAPS

Size == (Nat \ {0}) \X (Nat \ {0})
Code == { windows_key_mapping[k] : k \in Key }

\* Events as the window makes them.
Event ==
  [kind : {"Pointer"}, at : Nat \X Nat, buttons : SUBSET Button]
  \cup [kind : {"Wheel"}, delta : Int \X Int]
  \cup [kind : {"Key"}, key : Key, pressed : BOOLEAN]

Messages == [event : Event \cup {[kind |-> "Close"]}, held : SUBSET Key]
Injector == [buttons : SUBSET Button, pressed_keys : Seq(Key)]
Host == [pointer : Inside(Screen), buttons : SUBSET Button, keys : SUBSET Code]

LEMMA Kinds ==
  ASSUME NEW e \in Event
  PROVE  /\ e.kind \in {"Pointer", "Wheel", "Key"}
         /\ e.kind = "Pointer" => e.at \in Nat \X Nat /\ e.buttons \subseteq Button
         /\ e.kind = "Wheel" => e.delta \in Int \X Int
         /\ e.kind = "Key" => e.key \in Key /\ e.pressed \in BOOLEAN
BY DEF Event

\* Every key of the user has a key of the protocol, and no two of those a code.
LEMMA Keys ==
  /\ Key \subseteq KeyboardKey
  /\ \A k \in UserKey \ Unmapped : map_key[k] \in Key
  /\ \A k1, k2 \in Key : windows_key_mapping[k1] = windows_key_mapping[k2] => k1 = k2
<1>1. \A k \in UserKey \ Unmapped : k \in WindowKey
  BY InputAssumption
<1>2. Key \subseteq KeyboardKey
  BY <1>1, KeysAreDistinct DEF Key
<1> QED
  BY <1>2, KeysAreDistinct DEF Key

LEMMA Clamped ==
  ASSUME NEW n \in Int, NEW low \in Int, NEW high \in Int, low <= high
  PROVE  /\ Clamp(n, low, high) \in Int /\ Clamp(n, low, high) \in low..high
         /\ low <= Clamp(n, low, high) /\ Clamp(n, low, high) <= high
BY DEF Clamp

\* A point of the window is a pixel of the picture, whatever their sizes.
LEMMA Pointed ==
  ASSUME NEW mouse \in Int \X Int, NEW window \in Size, NEW frame \in Size
  PROVE  map_pointer_to_frame(mouse, window, frame) \in Inside(frame)
<1>1. /\ mouse[1] \in Int /\ mouse[2] \in Int
      /\ window[1] \in Nat \ {0} /\ window[2] \in Nat \ {0}
      /\ frame[1] \in Nat \ {0} /\ frame[2] \in Nat \ {0}
  BY DEF Size
<1>2. ASSUME NEW m \in Int, NEW w \in Nat \ {0}, NEW f \in Nat \ {0}
      PROVE  (Clamp(m, 0, w) * f) \div w \in Int
  <2>1. Clamp(m, 0, w) \in Int
    BY Clamped
  <2>2. Clamp(m, 0, w) * f \in Int
    BY <2>1
  <2> QED
    BY <2>2
<1>3. ASSUME NEW m \in Int, NEW w \in Nat \ {0}, NEW v \in Nat \ {0}, NEW f \in Nat \ {0},
             NEW g \in Nat \ {0}
      PROVE  Clamp(2 * f * m - (v * f - w * g), 0, 2 * w * g) \div (2 * w) \in Int
  <2>1. 2 * f * m \in Int /\ v * f \in Int /\ w * g \in Nat
    OBVIOUS
  <2>2. 2 * f * m - (v * f - w * g) \in Int
    BY <2>1
  <2>3. 2 * w * g \in Nat /\ 2 * w \in Nat \ {0}
    <3>1. w * g \in Nat /\ 2 * w * g = 2 * (w * g)
      BY SMTT(20)
    <3> QED
      BY <3>1
  <2>4. 0 \in Int /\ 2 * w * g \in Int /\ 0 <= 2 * w * g
    BY <2>3
  <2>5. PICK c \in Int : c = Clamp(2 * f * m - (v * f - w * g), 0, 2 * w * g)
    BY <2>2, <2>4, Clamped
  <2>6. c \div (2 * w) \in Int
    <3>1. \A d \in Nat \ {0} : c \div d \in Int
      OBVIOUS
    <3> QED
      BY <2>3, <3>1
  <2> QED
    BY <2>5, <2>6
<1>4. ASSUME NEW n \in Int, NEW f \in Nat \ {0}
      PROVE  Clamp(n, 0, LastPixel(f)) \in 0..f - 1
  <2>1. f - 1 \in Int /\ 0 \in Int /\ 0 <= f - 1
    OBVIOUS
  <2> QED
    BY <2>1, Clamped DEF LastPixel
<1>5. CASE frame[1] * window[2] > window[1] * frame[2]
  <2>1. (Clamp(mouse[1], 0, window[1]) * frame[1]) \div window[1] \in Int
    BY <1>1, <1>2
  <2>2. Clamp(2 * frame[1] * mouse[2] - (window[2] * frame[1] - window[1] * frame[2]), 0,
              2 * window[1] * frame[2]) \div (2 * window[1]) \in Int
    BY <1>1, <1>3
  <2> QED
    BY <1>1, <1>4, <1>5, <2>1, <2>2 DEF map_pointer_to_frame, Inside
<1>6. CASE ~(frame[1] * window[2] > window[1] * frame[2])
  <2>1. (Clamp(mouse[2], 0, window[2]) * frame[2]) \div window[2] \in Int
    BY <1>1, <1>2
  <2>2. Clamp(2 * frame[2] * mouse[1] - (window[1] * frame[2] - window[2] * frame[1]), 0,
              2 * window[2] * frame[1]) \div (2 * window[2]) \in Int
    BY <1>1, <1>3
  <2> QED
    BY <1>1, <1>4, <1>6, <2>1, <2>2 DEF map_pointer_to_frame, Inside
<1> QED
  BY <1>5, <1>6

\* What an event takes from the wheel and what it leaves are all there was.
LEMMA Taken ==
  ASSUME NEW r \in Int
  PROVE  /\ take_wheel_delta(r) \in -MaxWheel..MaxWheel /\ take_wheel_delta(r) \in Int
         /\ Remainder(r) \in Int
         /\ Fraction * take_wheel_delta(r) + Remainder(r) = r
<1>1. Fraction \in Nat \ {0} /\ MaxWheel \in Nat
  BY InputAssumption
<1>2. Truncated(r) \in Int
  <2>1. r \div Fraction \in Int /\ (-r) \div Fraction \in Int
    BY <1>1
  <2> QED
    BY <2>1 DEF Truncated
<1>3. take_wheel_delta(r) \in -MaxWheel..MaxWheel /\ take_wheel_delta(r) \in Int
  <2>1. -MaxWheel \in Int /\ MaxWheel \in Int /\ -MaxWheel <= MaxWheel
    BY <1>1
  <2> QED
    BY <1>2, <2>1, Clamped DEF take_wheel_delta
<1>4. PICK p \in Int : p = Fraction * take_wheel_delta(r)
  BY <1>1, <1>3
<1>5. Remainder(r) = r - p
  BY <1>4 DEF Remainder
<1> QED
  BY <1>3, <1>4, <1>5

-----------------------------------------------------------------------------
\* The calls of two sequences are those of the one and those of the other.
LEMMA WhatOfBoth ==
  ASSUME NEW S, NEW s \in Seq(S), NEW t \in Seq(S), NEW d
  PROVE  What(s \o t, d) = What(s, d) \cup What(t, d)
<1>1. /\ s \o t \in Seq(S) /\ Len(s) \in Nat /\ Len(t) \in Nat /\ Len(s \o t) = Len(s) + Len(t)
      /\ DOMAIN s = 1..Len(s) /\ DOMAIN t = 1..Len(t) /\ DOMAIN (s \o t) = 1..Len(s) + Len(t)
      /\ \A i \in 1..Len(s) + Len(t) : (s \o t)[i] = IF i <= Len(s) THEN s[i] ELSE t[i - Len(s)]
  BY ConcatProperties, LenProperties
<1>2. ASSUME NEW x \in What(s \o t, d)
      PROVE  x \in What(s, d) \cup What(t, d)
  <2>1. PICK i \in 1..Len(s) + Len(t) : (s \o t)[i].does = d /\ x = (s \o t)[i].what
    BY <1>1 DEF What
  <2>2. i <= Len(s) => i \in 1..Len(s) /\ (s \o t)[i] = s[i]
    BY <1>1, <2>1
  <2>3. ~(i <= Len(s)) => i - Len(s) \in 1..Len(t) /\ (s \o t)[i] = t[i - Len(s)]
    BY <1>1, <2>1
  <2> QED
    BY <1>1, <2>1, <2>2, <2>3 DEF What
<1>3. ASSUME NEW x \in What(s, d)
      PROVE  x \in What(s \o t, d)
  <2>1. PICK i \in 1..Len(s) : s[i].does = d /\ x = s[i].what
    BY <1>1 DEF What
  <2>2. i \in 1..Len(s) + Len(t) /\ (s \o t)[i] = s[i]
    BY <1>1, <2>1
  <2> QED
    BY <1>1, <2>1, <2>2 DEF What
<1>4. ASSUME NEW x \in What(t, d)
      PROVE  x \in What(s \o t, d)
  <2>1. PICK i \in 1..Len(t) : t[i].does = d /\ x = t[i].what
    BY <1>1 DEF What
  <2>2. i + Len(s) \in 1..Len(s) + Len(t) /\ (s \o t)[i + Len(s)] = t[i]
    BY <1>1, <2>1
  <2> QED
    BY <1>1, <2>1, <2>2 DEF What
<1> QED
  BY <1>2, <1>3, <1>4

LEMMA WhatOfOne ==
  ASSUME NEW c, NEW d
  PROVE  What(<<c>>, d) = (IF c.does = d THEN {c.what} ELSE {}) /\ What(<<>>, d) = {}
<1>1. DOMAIN <<c>> = {1} /\ <<c>>[1] = c /\ DOMAIN << >> = {}
  OBVIOUS
<1> QED
  BY <1>1 DEF What

\* A call of its own.
LEMMA OneCall ==
  ASSUME NEW S, NEW does, NEW what, Call(does, what) \in S
  PROVE  /\ <<Call(does, what)>> \in Seq(S) /\ Len(<<Call(does, what)>>) = 1
         /\ What(<<Call(does, what)>>, does) = {what}
         /\ \A d : d # does => What(<<Call(does, what)>>, d) = {}
<1>1. PICK c : c = Call(does, what)
  OBVIOUS
<1>2. c \in S /\ c.does = does /\ c.what = what
  BY <1>1 DEF Call
<1>3. \A d : What(<<c>>, d) = IF c.does = d THEN {c.what} ELSE {}
  BY WhatOfOne
<1>4. <<c>> \in Seq(S) /\ Len(<<c>>) = 1
  BY <1>2
<1> QED
  BY <1>1, <1>2, <1>3, <1>4

LEMMA WhatOfSome ==
  ASSUME NEW S, NEW s \in Seq(S), NEW n \in 0..Len(s), NEW d
  PROVE  What(SubSeq(s, 1, n), d) \subseteq What(s, d)
<1>1. /\ Len(s) \in Nat /\ DOMAIN s = 1..Len(s) /\ DOMAIN SubSeq(s, 1, n) = 1..n
      /\ \A i \in 1..n : SubSeq(s, 1, n)[i] = s[i]
  BY LenProperties, SubSeqProperties
<1>2. n \in Nat /\ n <= Len(s)
  BY <1>1
<1>3. 1..n \subseteq 1..Len(s)
  BY <1>1, <1>2
<1> QED
  BY <1>1, <1>3 DEF What

-----------------------------------------------------------------------------
AnyCall ==
  [does : {"move", "down", "up", "press", "release", "hwheel", "wheel"},
   what : Inside(Screen) \cup Button \cup Int \cup Code]

LEMMA Joined ==
  ASSUME NEW s \in Seq(AnyCall), NEW t \in Seq(AnyCall)
  PROVE  /\ s \o t \in Seq(AnyCall) /\ Len(s \o t) = Len(s) + Len(t)
         /\ \A d : What(s \o t, d) = What(s, d) \cup What(t, d)
BY ConcatProperties, WhatOfBoth

LEMMA ChangeCalls ==
  ASSUME NEW mask \in Button, NEW buttons
  PROVE  /\ Change(mask, buttons) \in Seq(AnyCall) /\ Len(Change(mask, buttons)) <= 1
         /\ What(Change(mask, buttons), "down") = {mask} \cap (buttons \ injector.buttons)
         /\ What(Change(mask, buttons), "up") = {mask} \cap (injector.buttons \ buttons)
         /\ \A d \in {"move", "press", "release", "hwheel", "wheel"} :
              What(Change(mask, buttons), d) = {}
<1>3. \A d : What(<<>>, d) = {}
  BY WhatOfOne
<1>4. CASE mask \in buttons \ injector.buttons
  <2>1. Change(mask, buttons) = <<Call("down", mask)>> /\ Call("down", mask) \in AnyCall
    BY <1>4 DEF Change, Call, AnyCall
  <2>2. {mask} \cap (buttons \ injector.buttons) = {mask} /\ {mask} \cap (injector.buttons \ buttons) = {}
    BY <1>4
  <2>3. PICK x : x = <<Call("down", mask)>>
    OBVIOUS
  <2>4. /\ x \in Seq(AnyCall) /\ Len(x) = 1 /\ What(x, "down") = {mask}
        /\ \A d : d # "down" => What(x, d) = {}
    BY <2>1, <2>3, OneCall
  <2> QED
    BY <2>1, <2>2, <2>3, <2>4
<1>5. CASE mask \in injector.buttons \ buttons
  <2>1. Change(mask, buttons) = <<Call("up", mask)>> /\ Call("up", mask) \in AnyCall
    BY <1>5 DEF Change, Call, AnyCall
  <2>2. {mask} \cap (buttons \ injector.buttons) = {} /\ {mask} \cap (injector.buttons \ buttons) = {mask}
    BY <1>5
  <2>3. PICK x : x = <<Call("up", mask)>>
    OBVIOUS
  <2>4. /\ x \in Seq(AnyCall) /\ Len(x) = 1 /\ What(x, "up") = {mask}
        /\ \A d : d # "up" => What(x, d) = {}
    BY <2>1, <2>3, OneCall
  <2> QED
    BY <2>1, <2>2, <2>3, <2>4
<1>6. CASE mask \notin buttons \ injector.buttons /\ mask \notin injector.buttons \ buttons
  <2>1. Change(mask, buttons) = <<>>
    BY <1>6 DEF Change
  <2>2. <<>> \in Seq(AnyCall) /\ Len(<<>>) = 0
    OBVIOUS
  <2> QED
    BY <1>3, <1>6, <2>1, <2>2
<1> QED
  BY <1>4, <1>5, <1>6

LEMMA LiftCalls ==
  ASSUME NEW mask \in Button, NEW i
  PROVE  /\ Lift(mask, i) \in Seq(AnyCall)
         /\ What(Lift(mask, i), "up") = {mask} \cap i.buttons
         /\ \A d \in {"move", "down", "press", "release", "hwheel", "wheel"} :
              What(Lift(mask, i), d) = {}
<1>1. \A d : What(<<>>, d) = {}
  BY WhatOfOne
<1>2. CASE mask \in i.buttons
  <2>1. Lift(mask, i) = <<Call("up", mask)>> /\ Call("up", mask) \in AnyCall
    BY <1>2 DEF Lift, Call, AnyCall
  <2>2. {mask} \cap i.buttons = {mask}
    BY <1>2
  <2>3. PICK x : x = <<Call("up", mask)>>
    OBVIOUS
  <2>4. /\ x \in Seq(AnyCall) /\ Len(x) = 1 /\ What(x, "up") = {mask}
        /\ \A d : d # "up" => What(x, d) = {}
    BY <2>1, <2>3, OneCall
  <2> QED
    BY <2>1, <2>2, <2>3, <2>4
<1>3. CASE mask \notin i.buttons
  <2>1. Lift(mask, i) = <<>> /\ <<>> \in Seq(AnyCall)
    BY <1>3 DEF Lift
  <2> QED
    BY <1>1, <1>3, <2>1
<1> QED
  BY <1>2, <1>3

LEMMA RotateCalls ==
  ASSUME NEW wheel \in {"hwheel", "wheel"}, NEW delta \in Int
  PROVE  /\ Rotate(wheel, delta) \in Seq(AnyCall) /\ Len(Rotate(wheel, delta)) <= 1
         /\ What(Rotate(wheel, delta), wheel) = {delta} \ {0}
         /\ \A d : d # wheel => What(Rotate(wheel, delta), d) = {}
<1>1. \A d : What(<<>>, d) = {}
  BY WhatOfOne
<1>2. CASE delta # 0
  <2>1. Rotate(wheel, delta) = <<Call(wheel, delta)>> /\ Call(wheel, delta) \in AnyCall
    BY <1>2 DEF Rotate, Call, AnyCall
  <2>2. {delta} \ {0} = {delta}
    BY <1>2
  <2>3. PICK x : x = <<Call(wheel, delta)>>
    OBVIOUS
  <2>4. /\ x \in Seq(AnyCall) /\ Len(x) = 1 /\ What(x, wheel) = {delta}
        /\ \A d : d # wheel => What(x, d) = {}
    BY <2>1, <2>3, OneCall
  <2> QED
    BY <2>1, <2>2, <2>3, <2>4
<1>3. CASE delta = 0
  <2>1. Rotate(wheel, delta) = <<>> /\ {delta} \ {0} = {}
    BY <1>3 DEF Rotate
  <2>2. PICK x : x = <<>>
    OBVIOUS
  <2>3. x \in Seq(AnyCall) /\ Len(x) = 0 /\ \A d : What(x, d) = {}
    BY <1>1, <2>2
  <2> QED
    BY <2>1, <2>2, <2>3
<1> QED
  BY <1>2, <1>3

\* The pointer's calls move it and change exactly the buttons that differ.
LEMMA PointerCalls ==
  ASSUME NEW e, e.kind = "Pointer", e.at \in Inside(Screen), e.buttons \subseteq Button,
         injector.buttons \subseteq Button
  PROVE  /\ Calls(e) \in Seq(AnyCall) /\ Len(Calls(e)) <= 4
         /\ What(Calls(e), "move") = {e.at}
         /\ What(Calls(e), "down") = e.buttons \ injector.buttons
         /\ What(Calls(e), "up") = injector.buttons \ e.buttons
         /\ \A d \in {"press", "release", "hwheel", "wheel"} : What(Calls(e), d) = {}
<1> DEFINE m == <<Call("move", e.at)>>
           c1 == Change(1, e.buttons)
           c2 == Change(2, e.buttons)
           c4 == Change(4, e.buttons)
           m1 == m \o c1
           m2 == m1 \o c2
<1>1. Calls(e) = m2 \o c4
  BY DEF Calls
<1>2. 1 \in Button /\ 2 \in Button /\ 4 \in Button /\ Button = {1} \cup {2} \cup {4}
  BY DEF Button
<1>3. /\ m \in Seq(AnyCall) /\ Len(m) = 1 /\ What(m, "move") = {e.at}
      /\ \A d : d # "move" => What(m, d) = {}
  <2>1. Call("move", e.at) \in AnyCall
    BY DEF Call, AnyCall
  <2> QED
    BY <2>1, OneCall
<1>4. /\ c1 \in Seq(AnyCall) /\ Len(c1) <= 1
      /\ What(c1, "down") = {1} \cap (e.buttons \ injector.buttons)
      /\ What(c1, "up") = {1} \cap (injector.buttons \ e.buttons)
      /\ \A d \in {"move", "press", "release", "hwheel", "wheel"} : What(c1, d) = {}
  BY <1>2, ChangeCalls
<1>5. /\ c2 \in Seq(AnyCall) /\ Len(c2) <= 1
      /\ What(c2, "down") = {2} \cap (e.buttons \ injector.buttons)
      /\ What(c2, "up") = {2} \cap (injector.buttons \ e.buttons)
      /\ \A d \in {"move", "press", "release", "hwheel", "wheel"} : What(c2, d) = {}
  BY <1>2, ChangeCalls
<1>6. /\ c4 \in Seq(AnyCall) /\ Len(c4) <= 1
      /\ What(c4, "down") = {4} \cap (e.buttons \ injector.buttons)
      /\ What(c4, "up") = {4} \cap (injector.buttons \ e.buttons)
      /\ \A d \in {"move", "press", "release", "hwheel", "wheel"} : What(c4, d) = {}
  BY <1>2, ChangeCalls
<1> HIDE DEF m, c1, c2, c4
<1>0. m \in Seq(AnyCall) /\ c1 \in Seq(AnyCall)
  BY <1>3, <1>4
<1>a. /\ m1 \in Seq(AnyCall) /\ Len(m1) = Len(m) + Len(c1)
      /\ \A d : What(m1, d) = What(m, d) \cup What(c1, d)
  BY <1>0, Joined
<1> HIDE DEF m1
<1>b. /\ m2 \in Seq(AnyCall) /\ Len(m2) = Len(m1) + Len(c2)
      /\ \A d : What(m2, d) = What(m1, d) \cup What(c2, d)
  BY <1>a, <1>5, Joined
<1> HIDE DEF m2
<1>c. /\ Calls(e) \in Seq(AnyCall) /\ Len(Calls(e)) = Len(m2) + Len(c4)
      /\ \A d : What(Calls(e), d) = What(m2, d) \cup What(c4, d)
  BY <1>1, <1>b, <1>6, Joined
<1>7. Calls(e) \in Seq(AnyCall) /\ Len(Calls(e)) = Len(m) + Len(c1) + Len(c2) + Len(c4)
  BY <1>a, <1>b, <1>c
<1>8. \A d : What(Calls(e), d) = What(m, d) \cup What(c1, d) \cup What(c2, d) \cup What(c4, d)
  BY <1>a, <1>b, <1>c
<1>9. Len(Calls(e)) <= 4
  <2>1. Len(m) \in Nat /\ Len(c1) \in Nat /\ Len(c2) \in Nat /\ Len(c4) \in Nat
    BY <1>3, <1>4, <1>5, <1>6, LenProperties
  <2>2. Len(m) = 1 /\ Len(c1) <= 1 /\ Len(c2) <= 1 /\ Len(c4) <= 1
    BY <1>3, <1>4, <1>5, <1>6
  <2> QED
    BY <1>7, <2>1, <2>2
<1>10. What(Calls(e), "move") = {e.at}
  BY <1>3, <1>4, <1>5, <1>6, <1>8
<1>11. What(Calls(e), "down") = e.buttons \ injector.buttons
  BY <1>2, <1>3, <1>4, <1>5, <1>6, <1>8
<1>12. What(Calls(e), "up") = injector.buttons \ e.buttons
  BY <1>2, <1>3, <1>4, <1>5, <1>6, <1>8
<1>13. \A d \in {"press", "release", "hwheel", "wheel"} : What(Calls(e), d) = {}
  BY <1>3, <1>4, <1>5, <1>6, <1>8
<1> QED
  BY <1>7, <1>9, <1>10, <1>11, <1>12, <1>13

\* The wheel's calls turn it by what the event says.
LEMMA WheelCalls ==
  ASSUME NEW e, e.kind = "Wheel", e.delta \in Int \X Int
  PROVE  /\ Calls(e) \in Seq(AnyCall) /\ Len(Calls(e)) <= 4
         /\ \A d \in {"move", "down", "up", "press", "release"} : What(Calls(e), d) = {}
         /\ What(Calls(e), "hwheel") \subseteq Int /\ What(Calls(e), "wheel") \subseteq Int
         /\ Turned(Calls(e)) = <<e.delta[1], e.delta[2]>>
<1> DEFINE r1 == Rotate("hwheel", e.delta[1])
           r2 == Rotate("wheel", e.delta[2])
<1>1. Calls(e) = r1 \o r2
  BY DEF Calls
<1>2. e.delta[1] \in Int /\ e.delta[2] \in Int
  OBVIOUS
<1>3. /\ r1 \in Seq(AnyCall) /\ Len(r1) <= 1 /\ What(r1, "hwheel") = {e.delta[1]} \ {0}
      /\ \A d : d # "hwheel" => What(r1, d) = {}
  BY <1>2, RotateCalls
<1>4. /\ r2 \in Seq(AnyCall) /\ Len(r2) <= 1 /\ What(r2, "wheel") = {e.delta[2]} \ {0}
      /\ \A d : d # "wheel" => What(r2, d) = {}
  BY <1>2, RotateCalls
<1> HIDE DEF r1, r2
<1>5. Calls(e) \in Seq(AnyCall) /\ Len(Calls(e)) = Len(r1) + Len(r2)
  BY <1>1, <1>3, <1>4, ConcatProperties
<1>6. \A d : What(Calls(e), d) = What(r1, d) \cup What(r2, d)
  BY <1>1, <1>3, <1>4, WhatOfBoth
<1>7. What(Calls(e), "hwheel") = {e.delta[1]} \ {0} /\ What(Calls(e), "wheel") = {e.delta[2]} \ {0}
  BY <1>3, <1>4, <1>6
<1>8. \A x \in Int : Only({x} \ {0}, 0) = x
  <2> TAKE x \in Int
  <2>1. x = 0 => {x} \ {0} = {}
    OBVIOUS
  <2>2. x # 0 => {x} \ {0} = {x}
    OBVIOUS
  <2> QED
    BY <2>1, <2>2 DEF Only
<1>9. Len(Calls(e)) <= 4
  BY <1>3, <1>4, <1>5, LenProperties
<1>10. \A d \in {"move", "down", "up", "press", "release"} : What(Calls(e), d) = {}
  BY <1>3, <1>4, <1>6
<1> QED
  BY <1>2, <1>5, <1>7, <1>8, <1>9, <1>10 DEF Turned

LEMMA KeyCalls ==
  ASSUME NEW e, e.kind = "Key", e.key \in Key, e.pressed \in BOOLEAN
  PROVE  /\ Calls(e) \in Seq(AnyCall) /\ Len(Calls(e)) = 1
         /\ What(Calls(e), "press") = IF e.pressed THEN {windows_key_mapping[e.key]} ELSE {}
         /\ What(Calls(e), "release") = IF e.pressed THEN {} ELSE {windows_key_mapping[e.key]}
         /\ \A d \in {"move", "down", "up", "hwheel", "wheel"} : What(Calls(e), d) = {}
<1>1. PICK c : c = Call(IF e.pressed THEN "press" ELSE "release", windows_key_mapping[e.key])
  OBVIOUS
<1>2. Calls(e) = <<c>>
  BY <1>1 DEF Calls
<1>3. /\ c \in AnyCall /\ c.what = windows_key_mapping[e.key]
      /\ c.does = IF e.pressed THEN "press" ELSE "release"
  BY <1>1 DEF Call, AnyCall, Code
<1>4. <<c>> \in Seq(AnyCall) /\ Len(<<c>>) = 1
  BY <1>3
<1>5. \A d : What(<<c>>, d) = IF c.does = d THEN {c.what} ELSE {}
  BY WhatOfOne
<1> QED
  BY <1>2, <1>3, <1>4, <1>5

\* The codes of the keys the injector remembers.
Held(i) == { windows_key_mapping[k] : k \in Range(i.pressed_keys) }

\* The last calls of an injector let go of all it remembers, and of nothing else.
LEMMA ReleaseCalls ==
  ASSUME NEW i \in Injector
  PROVE  /\ What(Releases(i), "release") = Held(i)
         /\ What(Releases(i), "up") = i.buttons
         /\ \A d \in {"move", "down", "press", "hwheel", "wheel"} : What(Releases(i), d) = {}
<1>1. PICK keys \in Seq(Key) : keys = i.pressed_keys
  BY DEF Injector
<1>2. i.buttons \subseteq Button /\ 1 \in Button /\ 2 \in Button /\ 4 \in Button
      /\ Button = {1} \cup {2} \cup {4}
  BY DEF Injector, Button
<1>3. Len(keys) \in Nat /\ DOMAIN keys = 1..Len(keys) /\ \A n \in 1..Len(keys) : keys[n] \in Key
  BY LenProperties, ElementOfSeq
<1>4. PICK k : k = [n \in 1..Len(keys) |-> Call("release", windows_key_mapping[keys[Len(keys) - n + 1]])]
  OBVIOUS
<1>5. \A n \in 1..Len(keys) : Len(keys) - n + 1 \in 1..Len(keys)
  BY <1>3
<1>6. \A n \in 1..Len(keys) :
        k[n].does = "release" /\ k[n].what = windows_key_mapping[keys[Len(keys) - n + 1]] /\ k[n] \in AnyCall
  BY <1>3, <1>4, <1>5 DEF Call, AnyCall, Code
<1>7. k \in Seq(AnyCall) /\ DOMAIN k = 1..Len(keys)
  <2>1. k \in [1..Len(keys) -> AnyCall]
    BY <1>4, <1>6
  <2> QED
    BY <1>3, <2>1, SeqDef
<1>8. What(k, "release") = Held(i)
  <2>1. ASSUME NEW x \in What(k, "release")
        PROVE  x \in Held(i)
    <3>1. PICK n \in 1..Len(keys) : x = windows_key_mapping[keys[Len(keys) - n + 1]]
      BY <1>6, <1>7, <2>1 DEF What
    <3>2. keys[Len(keys) - n + 1] \in Range(keys)
      BY <1>3, <1>5 DEF Range
    <3> QED
      BY <1>1, <3>1, <3>2 DEF Held
  <2>2. ASSUME NEW x \in Held(i)
        PROVE  x \in What(k, "release")
    <3>1. PICK n \in 1..Len(keys) : x = windows_key_mapping[keys[n]]
      BY <1>1, <1>3, <2>2 DEF Held, Range
    <3>2. PICK m \in 1..Len(keys) : m = Len(keys) - n + 1
      BY <1>5
    <3>3. Len(keys) - m + 1 = n
      BY <1>3, <3>2
    <3> QED
      BY <1>6, <1>7, <3>1, <3>3 DEF What
  <2> QED
    BY <2>1, <2>2
<1>9. \A d : d # "release" => What(k, d) = {}
  BY <1>6, <1>7 DEF What
<1> DEFINE k1 == k \o Lift(1, i)
           k2 == k1 \o Lift(2, i)
<1>10. Releases(i) = k2 \o Lift(4, i)
  <2>1. \A n \in 1..Len(keys) : Reverse(keys)[n] = keys[Len(keys) - n + 1]
    BY DEF Reverse
  <2>2. k = [n \in DOMAIN i.pressed_keys |-> Call("release", windows_key_mapping[Reverse(i.pressed_keys)[n]])]
    BY <1>1, <1>3, <1>4, <2>1
  <2> QED
    BY <2>2 DEF Releases
<1>11. /\ Lift(1, i) \in Seq(AnyCall) /\ What(Lift(1, i), "up") = {1} \cap i.buttons
       /\ \A d \in {"move", "down", "press", "release", "hwheel", "wheel"} : What(Lift(1, i), d) = {}
  BY <1>2, LiftCalls
<1>12. /\ Lift(2, i) \in Seq(AnyCall) /\ What(Lift(2, i), "up") = {2} \cap i.buttons
       /\ \A d \in {"move", "down", "press", "release", "hwheel", "wheel"} : What(Lift(2, i), d) = {}
  BY <1>2, LiftCalls
<1>13. /\ Lift(4, i) \in Seq(AnyCall) /\ What(Lift(4, i), "up") = {4} \cap i.buttons
       /\ \A d \in {"move", "down", "press", "release", "hwheel", "wheel"} : What(Lift(4, i), d) = {}
  BY <1>2, LiftCalls
<1>14. k1 \in Seq(AnyCall) /\ \A d : What(k1, d) = What(k, d) \cup What(Lift(1, i), d)
  BY <1>7, <1>11, Joined
<1> HIDE DEF k1
<1>15. k2 \in Seq(AnyCall) /\ \A d : What(k2, d) = What(k1, d) \cup What(Lift(2, i), d)
  BY <1>12, <1>14, Joined
<1> HIDE DEF k2
<1>16. \A d : What(Releases(i), d) = What(k2, d) \cup What(Lift(4, i), d)
  BY <1>10, <1>13, <1>15, Joined
<1>17. \A d : What(Releases(i), d) =
         What(k, d) \cup What(Lift(1, i), d) \cup What(Lift(2, i), d) \cup What(Lift(4, i), d)
  BY <1>14, <1>15, <1>16
<1>18. What(Releases(i), "release") = Held(i)
  <2>1. /\ What(Lift(1, i), "release") = {} /\ What(Lift(2, i), "release") = {}
        /\ What(Lift(4, i), "release") = {}
    BY <1>11, <1>12, <1>13
  <2> QED
    BY <1>8, <1>17, <2>1
<1>19. What(Releases(i), "up") = i.buttons
  <2>1. What(k, "up") = {}
    BY <1>9
  <2>2. What(Releases(i), "up") = ({1} \cap i.buttons) \cup ({2} \cap i.buttons) \cup ({4} \cap i.buttons)
    BY <1>11, <1>12, <1>13, <1>17, <2>1
  <2>3. i.buttons \subseteq {1, 2, 4}
    BY <1>2
  <2> QED
    BY <2>2, <2>3
<1>20. ASSUME NEW d \in {"move", "down", "press", "hwheel", "wheel"}
       PROVE  What(Releases(i), d) = {}
  <2>1. What(k, d) = {}
    BY <1>9
  <2>2. What(Lift(1, i), d) = {} /\ What(Lift(2, i), d) = {} /\ What(Lift(4, i), d) = {}
    BY <1>11, <1>12, <1>13
  <2> QED
    BY <1>17, <2>1, <2>2
<1> QED
  BY <1>18, <1>19, <1>20

\* A key that is released leaves the injector's list, which holds no key twice.
LEMMA Forgotten ==
  ASSUME NEW keys \in Seq(Key), IsInjective(keys), NEW key
  PROVE  /\ RemoveFirst(keys, key) \in Seq(Key) /\ IsInjective(RemoveFirst(keys, key))
         /\ Range(RemoveFirst(keys, key)) = Range(keys) \ {key}
<1>1. Len(keys) \in Nat /\ DOMAIN keys = 1..Len(keys)
  BY LenProperties
<1>2. CASE ~\E n \in 1..Len(keys) : keys[n] = key
  <2>1. RemoveFirst(keys, key) = keys /\ key \notin Range(keys)
    BY <1>1, <1>2 DEF RemoveFirst, Range
  <2> QED
    BY <2>1
<1>3. CASE \E n \in 1..Len(keys) : keys[n] = key
  <2>1. PICK p \in 1..Len(keys) : keys[p] = key
    BY <1>3
  <2>2. \A n \in 1..Len(keys) : keys[n] = key <=> n = p
    BY <1>1, <2>1 DEF IsInjective
  <2>3. { n \in 1..Len(keys) : keys[n] = key } = {p}
    BY <2>2
  <2>4. Min({p}) = p
    BY <1>1 DEF Min
  <2>5. RemoveFirst(keys, key) = SubSeq(keys, 1, p - 1) \o SubSeq(keys, p + 1, Len(keys))
    BY <1>3, <2>3, <2>4 DEF RemoveFirst, RemoveAt, SelectInSeq
  <2>6. p \in Nat /\ 1 <= p /\ p <= Len(keys)
    BY <1>1
  <2>7. PICK a, b : a = SubSeq(keys, 1, p - 1) /\ b = SubSeq(keys, p + 1, Len(keys))
    OBVIOUS
  <2>8. /\ a \in Seq(Key) /\ Len(a) = p - 1 /\ \A n \in 1..p - 1 : a[n] = keys[n]
    BY <1>1, <2>6, <2>7, SubSeqProperties
  <2>9. /\ b \in Seq(Key) /\ Len(b) = Len(keys) - p
        /\ \A n \in 1..Len(keys) - p : b[n] = keys[p + n]
    <3>1. p + 1 \in 1..Len(keys) + 1 /\ Len(keys) \in p..Len(keys)
      BY <1>1, <2>6
    <3>2. /\ b \in Seq(Key)
          /\ Len(b) = IF p + 1 <= Len(keys) THEN Len(keys) - (p + 1) + 1 ELSE 0
          /\ \A n \in 1..Len(keys) - (p + 1) + 1 : b[n] = keys[p + 1 + n - 1]
      BY <1>1, <2>6, <2>7, <3>1, SubSeqProperties
    <3>3. Len(b) = Len(keys) - p
      <4>1. CASE ~(p < Len(keys))
        <5>1. ~(p + 1 <= Len(keys))
          BY <1>1, <2>6, <4>1
        <5>2. \A x, y \in Nat : x <= y /\ ~(x < y) => y - x = 0
          OBVIOUS
        <5>3. Len(keys) - p = 0
          BY <1>1, <2>6, <4>1, <5>2
        <5> QED
          BY <3>2, <5>1, <5>3
      <4>2. CASE p < Len(keys)
        <5>1. p + 1 <= Len(keys)
          BY <1>1, <2>6, <4>2
        <5>2. Len(keys) - (p + 1) + 1 = Len(keys) - p
          BY <1>1, <2>6
        <5> QED
          BY <3>2, <5>1, <5>2
      <4> QED
        BY <4>1, <4>2
    <3>4. ASSUME NEW n \in 1..Len(keys) - p
          PROVE  b[n] = keys[p + n]
      <4>1. n \in 1..Len(keys) - (p + 1) + 1 /\ p + 1 + n - 1 = p + n
        BY <1>1, <2>6
      <4> QED
        BY <3>2, <4>1
    <3> QED
      BY <3>2, <3>3, <3>4
  <2>10. PICK r : r = a \o b
    OBVIOUS
  <2>11. /\ r \in Seq(Key) /\ DOMAIN r = 1..Len(keys) - 1
         /\ \A n \in 1..Len(keys) - 1 : r[n] = IF n < p THEN keys[n] ELSE keys[n + 1]
    <3>1. /\ r \in Seq(Key) /\ Len(r) = Len(keys) - 1
          /\ \A n \in 1..Len(a) + Len(b) : r[n] = IF n <= Len(a) THEN a[n] ELSE b[n - Len(a)]
      <4>1. /\ r \in Seq(Key) /\ Len(r) = Len(a) + Len(b)
            /\ \A n \in 1..Len(a) + Len(b) : r[n] = IF n <= Len(a) THEN a[n] ELSE b[n - Len(a)]
        BY <2>8, <2>9, <2>10, ConcatProperties
      <4>2. Len(a) + Len(b) = Len(keys) - 1
        BY <1>1, <2>6, <2>8, <2>9
      <4> QED
        BY <4>1, <4>2
    <3>2. ASSUME NEW n \in 1..Len(keys) - 1
          PROVE  r[n] = IF n < p THEN keys[n] ELSE keys[n + 1]
      <4>1. CASE n < p
        <5>1. n \in 1..Len(a) + Len(b) /\ n <= Len(a) /\ n \in 1..p - 1
          BY <1>1, <2>6, <2>8, <2>9, <4>1
        <5> QED
          BY <2>8, <3>1, <4>1, <5>1
      <4>2. CASE ~(n < p)
        <5>1. n \in 1..Len(a) + Len(b) /\ ~(n <= Len(a)) /\ n - Len(a) \in 1..Len(keys) - p
              /\ p + (n - Len(a)) = n + 1
          BY <1>1, <2>6, <2>8, <2>9, <4>2
        <5> QED
          BY <2>9, <3>1, <4>2, <5>1
      <4> QED
        BY <4>1, <4>2
    <3> QED
      BY <3>1, <3>2, LenProperties
  <2>12. IsInjective(r)
    <3> SUFFICES ASSUME NEW m \in 1..Len(keys) - 1, NEW n \in 1..Len(keys) - 1, r[m] = r[n]
                 PROVE  m = n
      BY <2>11 DEF IsInjective
    <3>1. m \in 1..Len(keys) /\ n \in 1..Len(keys) /\ m + 1 \in 1..Len(keys) /\ n + 1 \in 1..Len(keys)
      BY <1>1
    <3>2. \A x, y \in 1..Len(keys) : keys[x] = keys[y] => x = y
      BY <1>1 DEF IsInjective
    <3>3. (IF m < p THEN m ELSE m + 1) = IF n < p THEN n ELSE n + 1
      BY <2>11, <3>1, <3>2
    <3> QED
      BY <1>1, <2>6, <3>1, <3>3
  <2>13. Range(r) = Range(keys) \ {key}
    <3>1. ASSUME NEW x \in Range(r)
          PROVE  x \in Range(keys) \ {key}
      <4>1. PICK n \in 1..Len(keys) - 1 : x = r[n]
        BY <2>11, <3>1 DEF Range
      <4>2. PICK m \in 1..Len(keys) : m # p /\ x = keys[m]
        <5>1. n \in 1..Len(keys) /\ n + 1 \in 1..Len(keys) /\ (n < p => n # p) /\ (~(n < p) => n + 1 # p)
          BY <1>1, <2>6
        <5> QED
          BY <2>11, <4>1, <5>1
      <4> QED
        BY <1>1, <2>2, <4>2 DEF Range
    <3>2. ASSUME NEW x \in Range(keys), x # key
          PROVE  x \in Range(r)
      <4>1. PICK m \in 1..Len(keys) : x = keys[m] /\ m # p
        BY <1>1, <2>1, <3>2 DEF Range
      <4>2. CASE m < p
        <5>1. m \in 1..Len(keys) - 1
          BY <1>1, <2>6, <4>2
        <5> QED
          BY <2>11, <4>1, <4>2, <5>1 DEF Range
      <4>3. CASE ~(m < p)
        <5>1. m - 1 \in 1..Len(keys) - 1 /\ ~(m - 1 < p) /\ m - 1 + 1 = m
          BY <1>1, <2>6, <4>1, <4>3
        <5>2. r[m - 1] = x
          BY <2>11, <4>1, <5>1
        <5> QED
          BY <2>11, <5>1, <5>2 DEF Range
      <4> QED
        BY <4>2, <4>3
    <3> QED
      BY <3>1, <3>2
  <2> QED
    BY <2>5, <2>7, <2>10, <2>11, <2>12, <2>13
<1> QED
  BY <1>2, <1>3

-----------------------------------------------------------------------------
\* Whatever part of its calls an event gets through, the host's desktop remains one.
LEMMA CallsFit ==
  ASSUME NEW e \in Event, validate_input(e, Screen), injector \in Injector
  PROVE  /\ Calls(e) \in Seq(AnyCall) /\ Len(Calls(e)) <= 4
         /\ What(Calls(e), "move") \subseteq Inside(Screen)
         /\ What(Calls(e), "down") \subseteq Button
         /\ What(Calls(e), "press") \subseteq Code
         /\ What(Calls(e), "hwheel") \subseteq Int /\ What(Calls(e), "wheel") \subseteq Int
<1>1. injector.buttons \subseteq Button
  BY DEF Injector
<1>2. CASE e.kind = "Pointer"
  <2>1. e.at \in Inside(Screen) /\ e.buttons \subseteq Button
    BY <1>2, Kinds DEF validate_input
  <2> QED
    BY <1>1, <1>2, <2>1, PointerCalls
<1>3. CASE e.kind = "Wheel"
  <2>1. e.delta \in Int \X Int
    BY <1>3, Kinds
  <2> QED
    BY <1>3, <2>1, WheelCalls
<1>4. CASE e.kind = "Key"
  <2>1. e.key \in Key /\ e.pressed \in BOOLEAN /\ windows_key_mapping[e.key] \in Code
    BY <1>4, Kinds DEF Code
  <2>2. Len(Calls(e)) = 1 => Len(Calls(e)) <= 4
    OBVIOUS
  <2> QED
    BY <1>4, <2>1, <2>2, KeyCalls
<1> QED
  BY <1>2, <1>3, <1>4, Kinds

LEMMA HostFits ==
  ASSUME NEW h \in Host, NEW c, What(c, "move") \subseteq Inside(Screen),
         What(c, "down") \subseteq Button, What(c, "press") \subseteq Code
  PROVE  AfterAll(h, c) \in Host
<1>1. Only(What(c, "move"), h.pointer) \in Inside(Screen)
  BY DEF Only, Host
<1> QED
  BY <1>1 DEF AfterAll, Host

LEMMA TurnedFits ==
  ASSUME NEW c, What(c, "hwheel") \subseteq Int, What(c, "wheel") \subseteq Int
  PROVE  Turned(c) \in Int \X Int
BY DEF Turned, Only

LEMMA DropFits ==
  ASSUME NEW h \in Host, injector \in Injector, Dropped(h)
  PROVE  host' \in Host /\ injector' = None
<1>1. /\ What(Releases(injector), "move") = {} /\ What(Releases(injector), "down") = {}
      /\ What(Releases(injector), "press") = {}
  BY ReleaseCalls
<1>2. PICK lifted \in Host : lifted = AfterAll(h, Releases(injector))
  BY <1>1, HostFits
<1>3. PICK keys \in SUBSET h.keys, buttons \in SUBSET h.buttons :
        host' = [lifted EXCEPT !.keys = @ \cup keys, !.buttons = @ \cup buttons]
  BY <1>2 DEF Dropped
<1> QED
  BY <1>2, <1>3 DEF Dropped, Host

\* What the injector records of an event.
LEMMA Records ==
  ASSUME injector \in Injector, IsInjective(injector.pressed_keys), NEW e \in Event
  PROVE  /\ Recorded(e) \in Injector /\ IsInjective(Recorded(e).pressed_keys)
         /\ Recorded(e).buttons = IF e.kind = "Pointer" THEN e.buttons ELSE injector.buttons
         /\ Range(Recorded(e).pressed_keys) =
              IF e.kind # "Key" THEN Range(injector.pressed_keys)
              ELSE IF e.pressed THEN Range(injector.pressed_keys) \cup {e.key}
              ELSE Range(injector.pressed_keys) \ {e.key}
<1>1. PICK keys \in Seq(Key), buttons \in SUBSET Button :
        /\ keys = injector.pressed_keys /\ buttons = injector.buttons
        /\ injector = [buttons |-> buttons, pressed_keys |-> keys]
  BY DEF Injector
<1>2. Len(keys) \in Nat /\ DOMAIN keys = 1..Len(keys)
  BY LenProperties
<1>3. CASE e.kind = "Pointer"
  <2>1. Recorded(e) = [buttons |-> e.buttons, pressed_keys |-> keys] /\ e.buttons \subseteq Button
    BY <1>1, <1>3, Kinds DEF Recorded
  <2> QED
    BY <1>1, <1>3, <2>1 DEF Injector
<1>4. CASE e.kind = "Wheel"
  <2>1. Recorded(e) = injector
    BY <1>4 DEF Recorded
  <2> QED
    BY <1>1, <1>4, <2>1
<1>5. CASE e.kind = "Key" /\ ~e.pressed
  <2>1. Recorded(e) = [buttons |-> buttons, pressed_keys |-> RemoveFirst(keys, e.key)]
    BY <1>1, <1>5 DEF Recorded
  <2>2. /\ RemoveFirst(keys, e.key) \in Seq(Key) /\ IsInjective(RemoveFirst(keys, e.key))
        /\ Range(RemoveFirst(keys, e.key)) = Range(keys) \ {e.key}
    BY <1>1, Forgotten
  <2> QED
    BY <1>1, <1>5, <2>1, <2>2 DEF Injector
<1>6. CASE e.kind = "Key" /\ e.pressed /\ Contains(keys, e.key)
  <2>1. Recorded(e) = injector
    BY <1>1, <1>6 DEF Recorded
  <2>2. e.key \in Range(keys)
    BY <1>2, <1>6 DEF Contains, Range
  <2> QED
    BY <1>1, <1>6, <2>1, <2>2
<1>7. CASE e.kind = "Key" /\ e.pressed /\ ~Contains(keys, e.key)
  <2>1. Recorded(e) = [buttons |-> buttons, pressed_keys |-> Append(keys, e.key)]
    BY <1>1, <1>7 DEF Recorded
  <2>2. PICK a : a = Append(keys, e.key)
    OBVIOUS
  <2>3. e.key \in Key
    BY <1>7, Kinds
  <2>4. /\ a \in Seq(Key) /\ DOMAIN a = 1..Len(keys) + 1 /\ a[Len(keys) + 1] = e.key
        /\ \A n \in 1..Len(keys) : a[n] = keys[n]
    BY <1>2, <2>2, <2>3, AppendProperties, LenProperties
  <2>5. \A n \in 1..Len(keys) : keys[n] # e.key
    BY <1>7 DEF Contains
  <2>6. 1..Len(keys) + 1 = 1..Len(keys) \cup {Len(keys) + 1}
    BY <1>2
  <2>7. IsInjective(a)
    BY <1>1, <1>2, <2>4, <2>5, <2>6 DEF IsInjective
  <2>8. Range(a) = Range(keys) \cup {e.key}
    BY <1>2, <2>4, <2>6 DEF Range
  <2> QED
    BY <1>1, <1>7, <2>1, <2>2, <2>4, <2>7, <2>8 DEF Injector
<1> QED
  BY <1>3, <1>4, <1>5, <1>6, <1>7, Kinds

\* An injector is something.
LEMMA NotNone == \A i \in Injector : i # None
BY Keys, InputAssumption DEF Injector

-----------------------------------------------------------------------------
\* The type invariant, with the shape of what it leaves open.
Typed ==
  /\ user \in [mouse : Nat \X Nat, buttons : SUBSET Button, keys : SUBSET UserKey, window : Size]
  /\ user.mouse \in Inside(user.window)
  /\ acts \in 0..MaxActs /\ viewer \in {"open", "over"} /\ link \in BOOLEAN
  /\ desktop_size \in {None, Desktop} /\ frame_size \in {Placeholder, Desktop}
  /\ window_keys \subseteq UserKey
  /\ scroll_remainder \in Int \X Int
  /\ stream \in Seq(Messages)
  /\ injector \in Injector \cup {None}
  /\ injector # None => IsInjective(injector.pressed_keys)
  /\ host \in Host
  /\ scrolled \in Int \X Int /\ turned \in Int \X Int
  /\ reported \subseteq Key /\ refused \in BOOLEAN

\* Events that leave the wheel alone, and those about keys.
Still == Event \ [kind : {"Wheel"}, delta : Int \X Int]
KeyEvent == [kind : {"Key"}, key : Key, pressed : BOOLEAN]

LEMMA Added ==
  ASSUME NEW v \in Int \X Int, NEW w \in Int \X Int
  PROVE  Plus(v, w) \in Int \X Int /\ Plus(v, w)[1] = v[1] + w[1] /\ Plus(v, w)[2] = v[2] + w[2]
BY DEF Plus

LEMMA KeySeqs ==
  ASSUME NEW K \in SUBSET UserKey, NEW b \in BOOLEAN, NEW q \in SetToSeqs(KeyEvents(K, b))
  PROVE  /\ q \in Seq(KeyEvent) /\ \A n \in 1..Len(q) : q[n].pressed = b
         /\ { q[n].key : n \in 1..Len(q) } = { e.key : e \in KeyEvents(K, b) }
<1>1. KeyEvents(K, b) \subseteq KeyEvent
  BY Keys DEF KeyEvents, KeyEvent
<1>2. IsFiniteSet(KeyEvents(K, b))
  <2>1. IsFiniteSet(K \ Unmapped)
    BY InputAssumption, FS_Subset
  <2>2. PICK f : f = [k \in K \ Unmapped |-> [kind |-> "Key", key |-> map_key[k], pressed |-> b]]
    OBVIOUS
  <2>3. f \in Surjection(K \ Unmapped, KeyEvents(K, b))
    BY <2>2 DEF KeyEvents, Surjection
  <2> QED
    BY <2>1, <2>3, FS_Surjection
<1>3. Cardinality(KeyEvents(K, b)) \in Nat
  BY <1>2, FS_CardinalityType
<1>4. q \in [1..Cardinality(KeyEvents(K, b)) -> KeyEvents(K, b)]
  BY DEF SetToSeqs
<1>5. q \in [1..Cardinality(KeyEvents(K, b)) -> KeyEvent]
  BY <1>1, <1>4
<1>6. q \in Seq(KeyEvent)
  BY <1>3, <1>5, SeqDef
<1>7. Len(q) = Cardinality(KeyEvents(K, b))
  BY <1>3, <1>5, <1>6, LenProperties
<1>8. \A n \in 1..Len(q) : q[n] \in KeyEvents(K, b) /\ q[n].pressed = b
  <2>1. \A e \in KeyEvents(K, b) : e.pressed = b
    BY DEF KeyEvents
  <2> QED
    BY <1>4, <1>7, <2>1
<1>9. \A e \in KeyEvents(K, b) : \E n \in 1..Len(q) : q[n] = e
  <2>0. PICK N \in Nat : N = Cardinality(KeyEvents(K, b))
    BY <1>3
  <2>1. PICK S : N = Cardinality(KeyEvents(K, b)) /\ S = KeyEvents(K, b)
    BY <2>0
  <2>2. q \in Injection(1..N, S)
    <3>1. q \in [1..N -> S] /\ \A i, j \in 1..N : i # j => q[i] # q[j]
      BY <2>1 DEF SetToSeqs
    <3> QED
      BY <3>1 DEF Injection, IsInjective
  <2>3. Cardinality(1..N) = N
    BY FS_Interval
  <2>4. q \in Surjection(1..N, S)
    BY <1>2, <2>1, <2>2, <2>3, FS_Injection
  <2> QED
    BY <1>7, <2>1, <2>4 DEF Surjection
<1>10. { q[n].key : n \in 1..Len(q) } = { e.key : e \in KeyEvents(K, b) }
  BY <1>8, <1>9
<1> QED
  BY <1>6, <1>8, <1>10

\* The pointer is somewhere in the picture.
LEMMA PointerFits ==
  ASSUME Typed
  PROVE  /\ Pointer \in [kind : {"Pointer"}, at : Nat \X Nat, buttons : SUBSET Button]
         /\ Pointer.at \in Inside(frame_size)
<1>1. frame_size \in Size
  BY InputAssumption DEF Typed, Size
<1>2. user.mouse \in Int \X Int /\ user.window \in Size /\ user.buttons \subseteq Button
  BY DEF Typed
<1>3. map_pointer_to_frame(user.mouse, user.window, frame_size) \in Inside(frame_size)
  BY <1>1, <1>2, Pointed
<1>4. Inside(frame_size) \subseteq Nat \X Nat
  BY DEF Inside
<1> QED
  BY <1>2, <1>3, <1>4 DEF Pointer

LEMMA WheelFits ==
  ASSUME NEW r \in Int \X Int
  PROVE  /\ Wheel(r) \in [kind : {"Wheel"}, delta : Int \X Int]
         /\ validate_input(Wheel(r), Desktop)
         /\ Wheel(r).delta = <<take_wheel_delta(r[1]), take_wheel_delta(r[2])>>
<1>1. /\ take_wheel_delta(r[1]) \in Int /\ take_wheel_delta(r[2]) \in Int
      /\ take_wheel_delta(r[1]) \in -MaxWheel..MaxWheel /\ take_wheel_delta(r[2]) \in -MaxWheel..MaxWheel
  BY Taken
<1>2. /\ Wheel(r).kind = "Wheel" /\ Wheel(r) \in [kind : {"Wheel"}, delta : Int \X Int]
      /\ Wheel(r).delta = <<take_wheel_delta(r[1]), take_wheel_delta(r[2])>>
  BY <1>1 DEF Wheel
<1>3. \A i \in 1..2 : Wheel(r).delta[i] \in -MaxWheel..MaxWheel
  BY <1>1, <1>2
<1> QED
  BY <1>2, <1>3 DEF validate_input

\* A set of natural numbers that is not empty has a least one.
LEMMA Least ==
  ASSUME NEW S \in SUBSET Nat, S # {}
  PROVE  \E m \in S : \A y \in S : m <= y
<1>1. PICK x \in S : \A y \in S : ~(<<y, x>> \in OpToRel(<, Nat))
  <2>1. S \subseteq Nat
    OBVIOUS
  <2> QED
    BY <2>1, NatLessThanWellFounded, WFMin
<1>2. \A y \in S : x <= y
  <2> SUFFICES ASSUME NEW y \in S, y < x
               PROVE  FALSE
    OBVIOUS
  <2>1. <<y, x>> \in OpToRel(<, Nat)
    BY DEF OpToRel
  <2> QED
    BY <1>1, <2>1
<1> QED
  BY <1>2

\* What goes out ends in front of the first event that is not valid.
LEMMA SomeAccepted ==
  ASSUME NEW S, NEW events \in Seq(S)
  PROVE  \E n \in 0..Len(events) :
           /\ Accepted(events) = SubSeq(events, 1, n)
           /\ n < Len(events) => ~validate_input(events[n + 1], Desktop)
           /\ \A i \in 1..n : validate_input(events[i], Desktop)
<1>1. PICK len \in Nat : len = Len(events)
  BY LenProperties
<1> DEFINE valid == { n \in 0..len : \A i \in 1..n : validate_input(events[i], Desktop) }
<1>2. \E n \in valid : \A m \in valid : m <= n
  <2> DEFINE rest == { len - n : n \in valid }
  <2>1. 0 \in valid /\ \A n \in valid : n \in Nat /\ n <= len
    BY <1>1
  <2>2. rest \in SUBSET Nat /\ rest # {}
    BY <1>1, <2>1
  <2>3. PICK r \in rest : \A y \in rest : r <= y
    <3> HIDE DEF rest
    <3> QED
      BY <2>2, Least
  <2>4. PICK n \in valid : r = len - n
    BY <2>3
  <2>5. ASSUME NEW m \in valid
        PROVE  m <= n
    <3>1. len - m \in rest
      OBVIOUS
    <3>2. len - n <= len - m /\ m \in Nat /\ n \in Nat
      BY <2>1, <2>3, <2>4, <3>1
    <3> QED
      BY <1>1, <3>2
  <2> QED
    BY <2>5
<1>3. PICK c : c = CHOOSE n \in valid : \A m \in valid : m <= n
  OBVIOUS
<1>4. Accepted(events) = SubSeq(events, 1, c)
  BY <1>1, <1>3 DEF Accepted
<1>5. c \in valid /\ \A m \in valid : m <= c
  <2> HIDE DEF valid
  <2> QED
    BY <1>2, <1>3
<1>6. ASSUME c < len, validate_input(events[c + 1], Desktop)
      PROVE  FALSE
  <2>1. c \in Nat /\ c + 1 \in 0..len /\ 1..c + 1 = 1..c \cup {c + 1}
    BY <1>1, <1>5, <1>6
  <2>2. c + 1 \in valid
    BY <1>5, <1>6, <2>1
  <2>3. c + 1 <= c
    BY <1>5, <2>2
  <2> QED
    BY <2>1, <2>3
<1> QED
  BY <1>1, <1>4, <1>5, <1>6

\* Only the last event can be held back, and a valid one is not.
LEMMA Outgoing ==
  ASSUME NEW S, NEW a \in Seq(S), NEW p \in Seq(S), Len(p) <= 1,
         \A i \in 1..Len(a) : validate_input(a[i], Desktop)
  PROVE  /\ Accepted(a \o p) \in {a, a \o p}
         /\ (\A i \in 1..Len(p) : validate_input(p[i], Desktop)) => Accepted(a \o p) = a \o p
         /\ \A i \in 1..Len(Accepted(a \o p)) : validate_input(Accepted(a \o p)[i], Desktop)
<1>1. PICK la \in Nat, lp \in Nat : la = Len(a) /\ lp = Len(p) /\ lp <= 1
  BY LenProperties
<1>2. PICK e : e = a \o p
  OBVIOUS
<1>3. /\ e \in Seq(S) /\ Len(e) = la + lp
      /\ \A i \in 1..la + lp : e[i] = IF i <= la THEN a[i] ELSE p[i - la]
  BY <1>1, <1>2, ConcatProperties
<1>4. PICK n \in 0..la + lp :
        /\ Accepted(e) = SubSeq(e, 1, n) /\ (n < la + lp => ~validate_input(e[n + 1], Desktop))
        /\ \A i \in 1..n : validate_input(e[i], Desktop)
  BY <1>3, SomeAccepted
<1>9. \A i \in 1..Len(Accepted(e)) : validate_input(Accepted(e)[i], Desktop)
  <2>1. \A i \in 1..n : e[i] \in S
    BY <1>3, ElementOfSeq
  <2>2. n \in Int /\ 1 \in Int /\ n \in Nat
    BY <1>1
  <2>3. /\ Len(SubSeq(e, 1, n)) = n
        /\ \A i \in 1..n : SubSeq(e, 1, n)[i] = e[i]
    BY <2>1, <2>2, SubSeqProperties
  <2> QED
    BY <1>4, <2>3
<1>5. n = la + lp => Accepted(e) = e
  BY <1>3, <1>4, SubSeqFull
<1>6. ASSUME n < la
      PROVE  FALSE
  <2>1. n + 1 \in 1..la + lp /\ n + 1 <= la /\ n + 1 \in 1..la /\ n < la + lp
    BY <1>1, <1>4, <1>6
  <2>2. e[n + 1] = a[n + 1]
    BY <1>3, <2>1
  <2> QED
    BY <1>1, <1>4, <2>1, <2>2
<1>7. CASE n < la + lp
  <2>1. n = la /\ lp = 1
    BY <1>1, <1>4, <1>6, <1>7
  <2>2. SubSeq(e, 1, la) = a
    <3>1. CASE la = 0
      <4>1. a = <<>>
        BY <1>1, <3>1, EmptySeq
      <4>2. SubSeq(e, 1, 0) = <<>>
        BY SubSeqEmpty
      <4> QED
        BY <3>1, <4>1, <4>2
    <3>2. CASE la # 0
      <4>1. 1 \in 1..Len(a) /\ Len(a) \in 1..Len(a)
        BY <1>1, <3>2
      <4>2. SubSeq(e, 1, Len(a)) = SubSeq(a, 1, Len(a))
        BY <1>2, <4>1, SubSeqOfConcat1
      <4> QED
        BY <1>1, <4>2, SubSeqFull
    <3> QED
      BY <3>1, <3>2
  <2>3. e[n + 1] = p[1] /\ 1 \in 1..Len(p)
    <3>1. la + 1 \in 1..la + lp /\ ~(la + 1 <= la) /\ la + 1 - la = 1 /\ 1 \in 1..lp
      BY <1>1, <2>1
    <3> QED
      BY <1>1, <1>3, <2>1, <3>1
  <2> QED
    BY <1>2, <1>4, <1>7, <2>1, <2>2, <2>3
<1>8. CASE ~(n < la + lp)
  <2>1. n = la + lp
    BY <1>1, <1>4, <1>8
  <2>2. Accepted(e) = e
    BY <1>5, <2>1
  <2> QED
    BY <1>2, <1>9, <2>2
<1> QED
  BY <1>7, <1>8

\* Messages lead from one set of keys to another, and what goes with a pointer are the
\* keys that are held behind the messages in front of it.
KeysAfter(keys, e) ==
  IF e.kind # "Key" THEN keys ELSE IF e.pressed THEN keys \cup {e.key} ELSE keys \ {e.key}
Leads(q, K) ==
  /\ K \in [0..Len(q) -> SUBSET Key]
  /\ \A n \in 1..Len(q) : /\ K[n] = KeysAfter(K[n - 1], q[n].event)
                          /\ q[n].event.kind = "Pointer" => q[n].held = K[n - 1]
Path(q, x, y) == \E K : Leads(q, K) /\ K[0] = x /\ K[Len(q)] = y

Post(events, held) == [i \in DOMAIN events |-> Message(events[i], held)]

LEMMA PostProperties ==
  ASSUME NEW s \in Seq(Event), NEW held \in SUBSET Key
  PROVE  /\ Post(s, held) \in Seq(Messages) /\ Len(Post(s, held)) = Len(s)
         /\ \A n \in 1..Len(s) : Post(s, held)[n].event = s[n] /\ Post(s, held)[n].held = held
<1>1. Len(s) \in Nat /\ DOMAIN s = 1..Len(s) /\ \A i \in 1..Len(s) : s[i] \in Event
  BY LenProperties, ElementOfSeq
<1>2. Post(s, held) = [i \in 1..Len(s) |-> Message(s[i], held)]
  BY <1>1 DEF Post
<1>3. Post(s, held) \in [1..Len(s) -> Messages]
  BY <1>1, <1>2 DEF Message, Messages
<1>4. Post(s, held) \in Seq(Messages)
  BY <1>1, <1>3, SeqDef
<1>5. Len(Post(s, held)) = Len(s)
  BY <1>1, <1>3, <1>4, LenProperties
<1>6. \A n \in 1..Len(s) : Post(s, held)[n].event = s[n] /\ Post(s, held)[n].held = held
  BY <1>2 DEF Message
<1> QED
  BY <1>4, <1>5, <1>6

LEMMA PostJoined ==
  ASSUME NEW s \in Seq(Event), NEW t \in Seq(Event), NEW held \in SUBSET Key
  PROVE  Post(s \o t, held) = Post(s, held) \o Post(t, held)
<1>1. PICK a \in Nat, b \in Nat : a = Len(s) /\ b = Len(t)
  BY LenProperties
<1>2. PICK j \in Seq(Event) : j = s \o t
  BY ConcatProperties
<1>3. /\ Len(s \o t) = Len(s) + Len(t)
      /\ \A n \in 1..Len(s) + Len(t) : (s \o t)[n] = IF n <= Len(s) THEN s[n] ELSE t[n - Len(s)]
  BY ConcatProperties
<1>4. Len(j) = a + b /\ \A n \in 1..a + b : j[n] = IF n <= a THEN s[n] ELSE t[n - a]
  BY <1>1, <1>2, <1>3
<1>5. PICK S \in Seq(Messages), T \in Seq(Messages) :
        S = Post(s, held) /\ T = Post(t, held) /\ Len(S) = a /\ Len(T) = b
  BY <1>1, PostProperties
<1>6. PICK J \in Seq(Messages) : J = S \o T
  BY ConcatProperties
<1>7. /\ Len(S \o T) = Len(S) + Len(T)
      /\ \A n \in 1..Len(S) + Len(T) : (S \o T)[n] = IF n <= Len(S) THEN S[n] ELSE T[n - Len(S)]
  BY ConcatProperties
<1>8. Len(J) = a + b /\ \A n \in 1..a + b : J[n] = IF n <= a THEN S[n] ELSE T[n - a]
  BY <1>5, <1>6, <1>7
<1>9. PICK P \in Seq(Messages) : P = Post(j, held) /\ Len(P) = a + b
  BY <1>4, PostProperties
<1>10. /\ \A n \in 1..a + b : P[n] = Message(j[n], held)
       /\ \A n \in 1..a : S[n] = Message(s[n], held)
       /\ \A n \in 1..b : T[n] = Message(t[n], held)
  BY <1>1, <1>4, <1>5, <1>9, LenProperties DEF Post
<1>11. ASSUME NEW n \in 1..a + b
       PROVE  P[n] = J[n]
  <2>1. CASE n <= a
    <3>1. n \in 1..a
      BY <2>1
    <3> QED
      BY <1>4, <1>8, <1>10, <2>1, <3>1
  <2>2. CASE ~(n <= a)
    <3>1. n - a \in 1..b
      BY <2>2
    <3> QED
      BY <1>4, <1>8, <1>10, <2>2, <3>1
  <2> QED
    BY <2>1, <2>2
<1>12. P = J
  BY <1>8, <1>9, <1>11, SeqEqual
<1> QED
  BY <1>2, <1>5, <1>6, <1>9, <1>12

LEMMA PathJoined ==
  ASSUME NEW q \in Seq(Messages), NEW t \in Seq(Messages), NEW x, NEW y, NEW z,
         Path(q, x, y), Path(t, y, z)
  PROVE  Path(q \o t, x, z)
<1>1. PICK a \in Nat, b \in Nat : a = Len(q) /\ b = Len(t)
  BY LenProperties
<1>2. PICK j \in Seq(Messages) : j = q \o t
  BY ConcatProperties
<1>3. /\ Len(q \o t) = Len(q) + Len(t)
      /\ \A n \in 1..Len(q) + Len(t) : (q \o t)[n] = IF n <= Len(q) THEN q[n] ELSE t[n - Len(q)]
  BY ConcatProperties
<1>4. Len(j) = a + b /\ \A n \in 1..a + b : j[n] = IF n <= a THEN q[n] ELSE t[n - a]
  BY <1>1, <1>2, <1>3
<1>5. PICK K : Leads(q, K) /\ K[0] = x /\ K[a] = y
  BY <1>1 DEF Path
<1>6. PICK L : Leads(t, L) /\ L[0] = y /\ L[b] = z
  BY <1>1 DEF Path
<1>7. /\ \A n \in 0..a : K[n] \in SUBSET Key
      /\ \A n \in 1..a : K[n] = KeysAfter(K[n - 1], q[n].event)
                         /\ (q[n].event.kind = "Pointer" => q[n].held = K[n - 1])
  BY <1>1, <1>5 DEF Leads
<1>8. /\ \A n \in 0..b : L[n] \in SUBSET Key
      /\ \A n \in 1..b : L[n] = KeysAfter(L[n - 1], t[n].event)
                         /\ (t[n].event.kind = "Pointer" => t[n].held = L[n - 1])
  BY <1>1, <1>6 DEF Leads
<1>9. PICK M : M = [n \in 0..a + b |-> IF n <= a THEN K[n] ELSE L[n - a]]
  OBVIOUS
<1>10. \A n \in 0..a : n \in 0..a + b /\ M[n] = K[n]
  BY <1>9
<1>11. \A n \in 0..b : a + n \in 0..a + b /\ M[a + n] = L[n]
  <2> TAKE n \in 0..b
  <2>1. a + n \in 0..a + b
    OBVIOUS
  <2>2. CASE n = 0
    <3>1. a \in 0..a /\ a + n = a
      BY <2>2
    <3> QED
      BY <1>5, <1>6, <1>10, <2>1, <2>2, <3>1
  <2>3. CASE n # 0
    <3>1. ~(a + n <= a) /\ a + n - a = n
      BY <2>3
    <3> QED
      BY <1>9, <2>1, <3>1
  <2> QED
    BY <2>1, <2>2, <2>3
<1>12. M \in [0..a + b -> SUBSET Key]
  <2>1. ASSUME NEW n \in 0..a + b
        PROVE  M[n] \in SUBSET Key
    <3>1. CASE n <= a
      <4>1. n \in 0..a
        BY <3>1
      <4> QED
        BY <1>7, <1>10, <4>1
    <3>2. CASE ~(n <= a)
      <4>1. n - a \in 0..b /\ a + (n - a) = n
        BY <3>2
      <4> QED
        BY <1>8, <1>11, <4>1
    <3> QED
      BY <3>1, <3>2
  <2> QED
    BY <1>9, <2>1
<1>13. ASSUME NEW n \in 1..a + b
       PROVE  M[n] = KeysAfter(M[n - 1], j[n].event)
              /\ (j[n].event.kind = "Pointer" => j[n].held = M[n - 1])
  <2>1. CASE n <= a
    <3>1. n \in 1..a /\ n \in 0..a /\ n - 1 \in 0..a
      BY <2>1
    <3>2. j[n] = q[n] /\ M[n] = K[n] /\ M[n - 1] = K[n - 1]
      BY <1>4, <1>10, <2>1, <3>1
    <3> QED
      BY <1>7, <3>1, <3>2
  <2>2. CASE ~(n <= a)
    <3>1. PICK m \in 1..b : m = n - a /\ n = a + m /\ n - 1 = a + (m - 1) /\ m - 1 \in 0..b /\ m \in 0..b
      <4>1. n - a \in 1..b /\ n = a + (n - a) /\ n - 1 = a + (n - a - 1) /\ n - a - 1 \in 0..b
            /\ n - a \in 0..b
        BY <2>2
      <4> QED
        BY <4>1
    <3>2. j[n] = t[m]
      BY <1>4, <2>2, <3>1
    <3>3. M[n] = L[m] /\ M[n - 1] = L[m - 1]
      BY <1>11, <3>1
    <3> QED
      BY <1>8, <3>2, <3>3
  <2> QED
    BY <2>1, <2>2
<1>14. Leads(j, M)
  BY <1>4, <1>12, <1>13 DEF Leads
<1>15. M[0] = x /\ M[a + b] = z
  <2>1. 0 \in 0..a /\ b \in 0..b
    OBVIOUS
  <2> QED
    BY <1>5, <1>6, <1>10, <1>11, <2>1
<1> QED
  BY <1>2, <1>4, <1>14, <1>15 DEF Path

LEMMA PathStays ==
  ASSUME NEW q \in Seq(Messages), NEW x \in SUBSET Key,
         \A n \in 1..Len(q) : q[n].event.kind # "Key" /\ (q[n].event.kind = "Pointer" => q[n].held = x)
  PROVE  Path(q, x, x)
<1>1. PICK a \in Nat : a = Len(q)
  BY LenProperties
<1>2. PICK K : K = [n \in 0..a |-> x]
  OBVIOUS
<1>3. ASSUME NEW n \in 1..a
      PROVE  K[n] = KeysAfter(K[n - 1], q[n].event)
             /\ (q[n].event.kind = "Pointer" => q[n].held = K[n - 1])
  <2>1. n \in 0..a /\ n - 1 \in 0..a
    OBVIOUS
  <2>2. K[n] = x /\ K[n - 1] = x
    BY <1>2, <2>1
  <2> QED
    BY <1>1, <2>2 DEF KeysAfter
<1>4. K \in [0..a -> SUBSET Key] /\ K[0] = x /\ K[a] = x
  BY <1>2
<1> QED
  BY <1>1, <1>3, <1>4 DEF Path, Leads

LEMMA PathOfKeys ==
  ASSUME NEW s \in Seq(KeyEvent), NEW b \in BOOLEAN, \A n \in 1..Len(s) : s[n].pressed = b,
         NEW held \in SUBSET Key, NEW x \in SUBSET Key
  PROVE  LET keys == { s[n].key : n \in 1..Len(s) } IN
         Path(Post(s, held), x, IF b THEN x \cup keys ELSE x \ keys)
<1>1. PICK a \in Nat : a = Len(s)
  BY LenProperties
<1>2. \A n \in 1..a : s[n].kind = "Key" /\ s[n].key \in Key /\ s[n].pressed = b
  <2>1. \A n \in 1..a : s[n] \in KeyEvent
    BY <1>1, ElementOfSeq
  <2> QED
    BY <1>1, <2>1 DEF KeyEvent
<1>3. s \in Seq(Event)
  <2>1. KeyEvent \subseteq Event
    BY DEF KeyEvent, Event
  <2> QED
    BY <2>1, SeqMonotonic
<1>4. PICK q \in Seq(Messages) :
        q = Post(s, held) /\ Len(q) = a /\ \A n \in 1..a : q[n].event = s[n]
  BY <1>1, <1>3, PostProperties
<1> DEFINE keys(n) == { s[m].key : m \in 1..n }
<1>5. PICK K : K = [n \in 0..a |-> IF b THEN x \cup keys(n) ELSE x \ keys(n)]
  OBVIOUS
<1>6. \A n \in 0..a : keys(n) \subseteq Key
  <2>1. \A n \in 0..a : \A m \in 1..n : m \in 1..a
    OBVIOUS
  <2> QED
    BY <1>2, <2>1
<1>7. \A n \in 1..a : keys(n) = keys(n - 1) \cup {s[n].key}
  <2> TAKE n \in 1..a
  <2>1. 1..n = 1..n - 1 \cup {n}
    OBVIOUS
  <2> QED
    BY <2>1
<1>8. keys(0) = {}
  OBVIOUS
<1> HIDE DEF keys
<1>9. \A n \in 0..a : K[n] = (IF b THEN x \cup keys(n) ELSE x \ keys(n)) /\ K[n] \in SUBSET Key
  BY <1>5, <1>6
<1>10. ASSUME NEW n \in 1..a
       PROVE  K[n] = KeysAfter(K[n - 1], q[n].event) /\ q[n].event.kind # "Pointer"
  <2>1. n \in 0..a /\ n - 1 \in 0..a
    OBVIOUS
  <2>2. keys(n) = keys(n - 1) \cup {s[n].key}
    BY <1>7
  <2>3. /\ K[n] = IF b THEN x \cup keys(n) ELSE x \ keys(n)
        /\ K[n - 1] = IF b THEN x \cup keys(n - 1) ELSE x \ keys(n - 1)
    BY <1>9, <2>1
  <2>4. q[n].event = s[n] /\ s[n].kind = "Key" /\ s[n].pressed = b
    BY <1>2, <1>4
  <2>5. KeysAfter(K[n - 1], q[n].event) = IF b THEN K[n - 1] \cup {s[n].key} ELSE K[n - 1] \ {s[n].key}
    BY <2>4 DEF KeysAfter
  <2>6. K[n] = IF b THEN K[n - 1] \cup {s[n].key} ELSE K[n - 1] \ {s[n].key}
    BY <2>2, <2>3
  <2> QED
    BY <2>4, <2>5, <2>6
<1>11. K \in [0..a -> SUBSET Key]
  BY <1>5, <1>9
<1>12. K[0] = x /\ K[a] = IF b THEN x \cup keys(a) ELSE x \ keys(a)
  <2>1. 0 \in 0..a /\ a \in 0..a
    OBVIOUS
  <2> QED
    BY <1>8, <1>9, <2>1
<1>13. Leads(q, K)
  BY <1>4, <1>10, <1>11 DEF Leads
<1>14. keys(a) = { s[n].key : n \in 1..Len(s) }
  BY <1>1 DEF keys
<1> QED
  BY <1>4, <1>12, <1>13, <1>14 DEF Path

\* A turn of the viewer: at most one event turns the wheel, by what was taken from
\* the remainder; it goes out first, and behind it go keys and the pointer.
Wheels(remainder) ==
  IF Wheel(remainder).delta = <<0, 0>> THEN <<>> ELSE <<Wheel(remainder)>>

LEMMA JoinedAgain ==
  ASSUME NEW a \in Seq(Event), NEW b \in Seq(Event), NEW c \in Seq(Event)
  PROVE  (a \o b) \o c = a \o (b \o c)
BY ConcatAssociative

LEMMA TurnDoes ==
  ASSUME Typed, NEW scroll \in Int \X Int, NEW repeats, Turn(scroll, repeats), desktop_size # None
  PROVE  \E rest \in Seq(Still), sent \in Seq(Event) :
           LET remainder == Plus(scroll_remainder, scroll) IN
           /\ sent = Wheels(remainder) \o rest
           /\ Wheels(remainder) \in Seq(Event)
           /\ stream' = stream \o [i \in DOMAIN sent |-> Message(sent[i], reported')]
           /\ \A i \in 1..Len(sent) : validate_input(sent[i], Desktop)
           /\ scroll_remainder' = <<Remainder(remainder[1]), Remainder(remainder[2])>>
           /\ scrolled' = Plus(scrolled, scroll)
           /\ reported' \subseteq Key
           /\ Path(Post(sent, reported'), reported, reported')
           /\ viewer' \in {"open", "over"}
           /\ refused' \in BOOLEAN
           /\ validate_input(Pointer, Desktop) => refused' = refused
<1> DEFINE remainder == Plus(scroll_remainder, scroll)
           wheel == Wheels(remainder)
           pointer == IF Pointer = last_pointer THEN <<>> ELSE <<Pointer>>
<1>1. PICK pressed \in SetToSeqs(KeyEvents(Pressed(repeats), TRUE)),
           released \in SetToSeqs(KeyEvents(Released, FALSE)) :
        LET events == Order(pointer, wheel \o pressed \o released)
            sent == Accepted(events)
        IN  /\ scroll_remainder' = <<Remainder(remainder[1]), Remainder(remainder[2])>>
            /\ scrolled' = Plus(scrolled, scroll)
            /\ reported' = (reported \cup { e.key : e \in KeyEvents(Pressed(repeats), TRUE) })
                           \ { e.key : e \in KeyEvents(Released, FALSE) }
            /\ stream' = stream \o [i \in DOMAIN sent |-> Message(sent[i], reported')]
            /\ viewer' = IF sent = events THEN "open" ELSE "over"
            /\ refused' = (refused \/ sent # events)
  BY DEF Turn, Wheels
<1>2. remainder \in Int \X Int
  BY DEF Typed, Plus
<1>3. wheel \in Seq(Event) /\ \A i \in 1..Len(wheel) : validate_input(wheel[i], Desktop)
  <2>1. Wheel(remainder) \in Event /\ validate_input(Wheel(remainder), Desktop)
    BY <1>2, WheelFits DEF Event
  <2> HIDE DEF remainder
  <2>2. <<Wheel(remainder)>> \in Seq(Event) /\ Len(<<Wheel(remainder)>>) = 1
    BY <2>1
  <2>3. CASE wheel = <<>>
    BY <2>3
  <2>4. CASE wheel = <<Wheel(remainder)>>
    BY <2>1, <2>2, <2>4
  <2> QED
    BY <2>3, <2>4 DEF Wheels
<1>4. pointer \in Seq(Still) /\ Len(pointer) <= 1
      /\ (validate_input(Pointer, Desktop) => \A i \in 1..Len(pointer) : validate_input(pointer[i], Desktop))
  <2>1. Pointer \in Still
    BY PointerFits DEF Still, Event
  <2>2. PICK x : x = Pointer
    OBVIOUS
  <2>3. <<x>> \in Seq(Still) /\ Len(<<x>>) = 1 /\ <<x>>[1] = x
    BY <2>1, <2>2
  <2> QED
    BY <2>2, <2>3
<1>5. PICK k : k = pressed \o released
  OBVIOUS
<1>6. /\ pressed \in Seq(KeyEvent) /\ released \in Seq(KeyEvent) /\ k \in Seq(KeyEvent)
  <2>1. Pressed(repeats) \subseteq UserKey /\ Released \subseteq UserKey
    BY DEF Typed, Pressed, Released
  <2>2. pressed \in Seq(KeyEvent)
    BY <2>1, KeySeqs
  <2>3. released \in Seq(KeyEvent)
    BY <2>1, KeySeqs
  <2> QED
    BY <1>5, <2>2, <2>3, ConcatProperties
<1>7. KeyEvent \subseteq Still /\ Still \subseteq Event
  BY DEF KeyEvent, Still, Event
<1>8. pressed \in Seq(Still) /\ released \in Seq(Still) /\ k \in Seq(Still) /\ k \in Seq(Event)
      /\ pressed \in Seq(Event) /\ released \in Seq(Event) /\ pointer \in Seq(Event)
  <2>1. Seq(KeyEvent) \subseteq Seq(Still) /\ Seq(Still) \subseteq Seq(Event)
    BY <1>7, SeqMonotonic
  <2> HIDE DEF pointer
  <2> QED
    BY <1>4, <1>6, <2>1
<1> HIDE DEF wheel, pointer
<1>9. PICK others : others = wheel \o k
  OBVIOUS
<1>10. /\ others \in Seq(Event) /\ wheel \o pressed \o released = others
  <2>1. wheel \in Seq(Event) /\ pressed \in Seq(Event) /\ released \in Seq(Event) /\ k \in Seq(Event)
    BY <1>3, <1>8
  <2>2. (wheel \o pressed) \o released = wheel \o k
    BY <1>5, <2>1, ConcatAssociative
  <2>3. wheel \o k \in Seq(Event)
    BY <2>1, ConcatProperties
  <2> QED
    BY <1>9, <2>2, <2>3
<1>11. \A i \in 1..Len(others) : validate_input(others[i], Desktop)
  <2> TAKE i \in 1..Len(others)
  <2>1. /\ Len(wheel) \in Nat /\ Len(k) \in Nat /\ Len(others) = Len(wheel) + Len(k)
        /\ others[i] = IF i <= Len(wheel) THEN wheel[i] ELSE k[i - Len(wheel)]
    BY <1>3, <1>8, <1>9, ConcatProperties, LenProperties
  <2>2. CASE i <= Len(wheel)
    <3>1. i \in 1..Len(wheel)
      BY <2>1, <2>2
    <3> QED
      BY <1>3, <2>1, <2>2, <3>1
  <2>3. CASE ~(i <= Len(wheel))
    <3>1. i - Len(wheel) \in 1..Len(k)
      BY <2>1, <2>3
    <3>2. k[i - Len(wheel)] \in KeyEvent
      BY <1>6, <3>1, ElementOfSeq
    <3>3. others[i].kind = "Key"
      BY <2>1, <2>3, <3>2 DEF KeyEvent
    <3> QED
      BY <3>3 DEF validate_input
  <2> QED
    BY <2>2, <2>3
<1>12. /\ Accepted(others \o pointer) \in {others, others \o pointer}
       /\ validate_input(Pointer, Desktop) => Accepted(others \o pointer) = others \o pointer
       /\ \A i \in 1..Len(Accepted(others \o pointer)) :
            validate_input(Accepted(others \o pointer)[i], Desktop)
  BY <1>4, <1>8, <1>10, <1>11, Outgoing
<1>13. PICK sent : sent = Accepted(others \o pointer)
  OBVIOUS
<1>14. /\ scroll_remainder' = <<Remainder(remainder[1]), Remainder(remainder[2])>>
       /\ scrolled' = Plus(scrolled, scroll)
       /\ stream' = stream \o [i \in DOMAIN sent |-> Message(sent[i], reported')]
       /\ viewer' = IF sent = others \o pointer THEN "open" ELSE "over"
       /\ refused' = (refused \/ sent # others \o pointer)
       /\ reported' = (reported \cup { e.key : e \in KeyEvents(Pressed(repeats), TRUE) })
                      \ { e.key : e \in KeyEvents(Released, FALSE) }
  BY <1>1, <1>10, <1>13 DEF Order
<1>15. \E rest \in Seq(Still) : sent = wheel \o rest /\ sent \in Seq(Event)
  <2>1. CASE sent = others
    BY <1>8, <1>9, <1>10, <2>1
  <2>2. CASE sent = others \o pointer
    <3>0. wheel \in Seq(Event) /\ k \in Seq(Event) /\ pointer \in Seq(Event)
      BY <1>3, <1>8
    <3>4. sent = (wheel \o k) \o pointer
      BY <1>9, <2>2
    <3>1. sent = wheel \o (k \o pointer)
      <4>1. (wheel \o k) \o pointer = wheel \o (k \o pointer)
        BY <3>0, JoinedAgain
      <4> QED
        BY <3>4, <4>1
    <3>2. k \o pointer \in Seq(Still)
      BY <1>4, <1>8, ConcatProperties
    <3>3. sent \in Seq(Event)
      BY <1>8, <1>10, <2>2, ConcatProperties
    <3> QED
      BY <3>1, <3>2, <3>3
  <2> QED
    BY <1>12, <1>13, <2>1, <2>2
<1>16. reported' \subseteq Key
  <2>1. Pressed(repeats) \subseteq UserKey
    BY DEF Typed, Pressed
  <2>2. { e.key : e \in KeyEvents(Pressed(repeats), TRUE) } \subseteq Key
    BY <2>1, Keys DEF KeyEvents
  <2> QED
    BY <1>14, <2>2 DEF Typed
<1>17. refused' \in BOOLEAN /\ (validate_input(Pointer, Desktop) => refused' = refused)
  BY <1>12, <1>13, <1>14 DEF Typed
<1>18. viewer' \in {"open", "over"}
  BY <1>14
<1>19. PICK rest \in Seq(Still) : sent = wheel \o rest /\ sent \in Seq(Event)
  BY <1>15
<1>20. \A i \in 1..Len(sent) : validate_input(sent[i], Desktop)
  BY <1>12, <1>13
<1>21. Path(Post(sent, reported'), reported, reported')
  <2>1. PICK held \in SUBSET Key, before \in SUBSET Key : held = reported' /\ before = reported
    BY <1>16 DEF Typed
  <2>2. PICK P \in SUBSET Key, R \in SUBSET Key :
          /\ P = { pressed[n].key : n \in 1..Len(pressed) }
          /\ R = { released[n].key : n \in 1..Len(released) }
          /\ held = (before \cup P) \ R
    <3>1. Pressed(repeats) \subseteq UserKey /\ Released \subseteq UserKey
      BY DEF Typed, Pressed, Released
    <3>2. { pressed[n].key : n \in 1..Len(pressed) } = { e.key : e \in KeyEvents(Pressed(repeats), TRUE) }
      BY <3>1, KeySeqs
    <3>3. { released[n].key : n \in 1..Len(released) } = { e.key : e \in KeyEvents(Released, FALSE) }
      BY <3>1, KeySeqs
    <3>4. \A K \in SUBSET UserKey, b \in BOOLEAN : { e.key : e \in KeyEvents(K, b) } \subseteq Key
      BY Keys DEF KeyEvents
    <3>5. PICK P, R : P = { e.key : e \in KeyEvents(Pressed(repeats), TRUE) }
                      /\ R = { e.key : e \in KeyEvents(Released, FALSE) }
      OBVIOUS
    <3>6. held = (before \cup P) \ R
      BY <1>14, <2>1, <3>5
    <3> QED
      BY <3>1, <3>2, <3>3, <3>4, <3>5, <3>6
  <2>3. Path(Post(wheel, held), before, before)
    <3>1. \A n \in 1..Len(wheel) : wheel[n].kind = "Wheel"
      <4>1. Wheel(remainder).kind = "Wheel"
        BY DEF Wheel
      <4>2. PICK w : w = Wheel(remainder)
        OBVIOUS
      <4>3. Len(<<w>>) = 1 /\ <<w>>[1] = w /\ Len(<<>>) = 0
        OBVIOUS
      <4>4. wheel = <<>> \/ wheel = <<w>>
        BY <4>2 DEF wheel, Wheels
      <4> QED
        BY <4>1, <4>2, <4>3, <4>4
    <3>2. PICK q \in Seq(Messages) :
            q = Post(wheel, held) /\ Len(q) = Len(wheel) /\ \A n \in 1..Len(wheel) : q[n].event = wheel[n]
      BY <1>3, PostProperties
    <3>3. \A n \in 1..Len(q) : q[n].event.kind = "Wheel"
      BY <3>1, <3>2
    <3> QED
      BY <3>2, <3>3, PathStays
  <2>4. Path(Post(pressed, held), before, before \cup P)
    <3>1. \A n \in 1..Len(pressed) : pressed[n].pressed = TRUE
      <4>1. Pressed(repeats) \in SUBSET UserKey /\ TRUE \in BOOLEAN
        BY DEF Typed, Pressed
      <4> QED
        BY <4>1, KeySeqs
    <3> QED
      BY <1>6, <2>2, <3>1, PathOfKeys
  <2>5. Path(Post(released, held), before \cup P, held)
    <3>1. \A n \in 1..Len(released) : released[n].pressed = FALSE
      <4>1. Released \in SUBSET UserKey /\ FALSE \in BOOLEAN
        BY DEF Typed, Released
      <4> QED
        BY <4>1, KeySeqs
    <3>2. before \cup P \in SUBSET Key
      OBVIOUS
    <3> QED
      BY <1>6, <2>2, <3>1, <3>2, PathOfKeys
  <2>6. Post(k, held) = Post(pressed, held) \o Post(released, held)
    BY <1>5, <1>8, PostJoined
  <2>7. Path(Post(k, held), before, held)
    <3>1. PICK u \in Seq(Messages), v \in Seq(Messages) : u = Post(pressed, held) /\ v = Post(released, held)
      BY <1>8, PostProperties
    <3>2. Path(u \o v, before, held)
      BY <2>4, <2>5, <3>1, PathJoined
    <3> QED
      BY <2>6, <3>1, <3>2
  <2>8. Post(others, held) = Post(wheel, held) \o Post(k, held)
    BY <1>3, <1>8, <1>9, PostJoined
  <2>9. Path(Post(others, held), before, held)
    <3>1. PICK u \in Seq(Messages), v \in Seq(Messages) : u = Post(wheel, held) /\ v = Post(k, held)
      BY <1>3, <1>8, PostProperties
    <3>2. Path(u \o v, before, held)
      BY <2>3, <2>7, <3>1, PathJoined
    <3> QED
      BY <2>8, <3>1, <3>2
  <2>10. CASE sent = others
    BY <2>1, <2>9, <2>10
  <2>11. CASE sent = others \o pointer
    <3>1. PICK q \in Seq(Messages) :
            /\ q = Post(pointer, held) /\ Len(q) = Len(pointer)
            /\ \A n \in 1..Len(pointer) : q[n].event = pointer[n] /\ q[n].held = held
      BY <1>8, PostProperties
    <3>2. \A n \in 1..Len(pointer) : pointer[n].kind # "Key"
      <4>1. PICK x : x = Pointer
        OBVIOUS
      <4>2. x.kind = "Pointer"
        BY <4>1 DEF Pointer
      <4>3. Len(<<x>>) = 1 /\ <<x>>[1] = x /\ Len(<<>>) = 0
        OBVIOUS
      <4>4. pointer = <<>> \/ pointer = <<x>>
        BY <4>1 DEF pointer
      <4> QED
        BY <4>2, <4>3, <4>4
    <3>3. \A n \in 1..Len(q) : q[n].event.kind # "Key" /\ q[n].held = held
      BY <3>1, <3>2
    <3>4. Path(q, held, held)
      BY <3>3, PathStays
    <3>5. Post(sent, held) = Post(others, held) \o Post(pointer, held)
      BY <1>8, <1>10, <2>11, PostJoined
    <3>6. Post(others, held) \in Seq(Messages)
      BY <1>10, PostProperties
    <3>7. Path(Post(others, held) \o q, before, held)
      BY <2>9, <3>4, <3>6, PathJoined
    <3> QED
      BY <2>1, <3>1, <3>5, <3>7
  <2> QED
    BY <1>12, <1>13, <2>10, <2>11
<1> QED
  BY <1>3, <1>14, <1>16, <1>17, <1>18, <1>19, <1>20, <1>21 DEF wheel

\* A sequence of events becomes one of messages.
LEMMA Posted ==
  ASSUME NEW sent \in Seq(Event), NEW held \in SUBSET Key, NEW q \in Seq(Messages)
  PROVE  /\ [i \in DOMAIN sent |-> Message(sent[i], held)] \in Seq(Messages)
         /\ q \o [i \in DOMAIN sent |-> Message(sent[i], held)] \in Seq(Messages)
<1>1. Len(sent) \in Nat /\ DOMAIN sent = 1..Len(sent) /\ \A i \in 1..Len(sent) : sent[i] \in Event
  BY LenProperties, ElementOfSeq
<1>2. [i \in DOMAIN sent |-> Message(sent[i], held)] \in [1..Len(sent) -> Messages]
  BY <1>1 DEF Message, Messages
<1>3. [i \in DOMAIN sent |-> Message(sent[i], held)] \in Seq(Messages)
  BY <1>1, <1>2, SeqDef
<1> QED
  BY <1>3, ConcatProperties

LEMMA TurnStays ==
  ASSUME Typed, NEW scroll \in Int \X Int, NEW repeats, Turn(scroll, repeats), acts' \in 0..MaxActs
  PROVE  Typed'
<1>1. UNCHANGED <<user, desktop_size, frame_size, link, hostVars>> /\ window_keys' = user.keys
  BY DEF Turn
<1>2. CASE desktop_size = None
  <2>1. UNCHANGED <<viewer, scroll_remainder, stream, history>>
    BY <1>2 DEF Turn
  <2> QED
    BY <1>1, <2>1 DEF Typed, history, hostVars
<1>3. CASE desktop_size # None
  <2>1. PICK rest \in Seq(Still), sent \in Seq(Event) :
          LET remainder == Plus(scroll_remainder, scroll) IN
          /\ stream' = stream \o [i \in DOMAIN sent |-> Message(sent[i], reported')]
          /\ scroll_remainder' = <<Remainder(remainder[1]), Remainder(remainder[2])>>
          /\ scrolled' = Plus(scrolled, scroll)
          /\ reported' \subseteq Key /\ viewer' \in {"open", "over"} /\ refused' \in BOOLEAN
    BY <1>3, TurnDoes
  <2>2. PICK held \in SUBSET Key : held = reported'
    BY <2>1
  <2>3. stream \in Seq(Messages)
    BY DEF Typed
  <2>4. stream' \in Seq(Messages)
    BY <2>1, <2>2, <2>3, Posted
  <2>5. scroll_remainder' \in Int \X Int /\ scrolled' \in Int \X Int
    <3>0. scroll_remainder \in Int \X Int /\ scrolled \in Int \X Int
      BY DEF Typed
    <3>1. PICK r \in Int \X Int : r = Plus(scroll_remainder, scroll)
      BY <3>0, Added
    <3>2. Remainder(r[1]) \in Int /\ Remainder(r[2]) \in Int
      BY Taken
    <3>3. scroll_remainder' = <<Remainder(r[1]), Remainder(r[2])>>
      BY <2>1, <3>1
    <3> QED
      BY <2>1, <3>0, <3>2, <3>3, Added
  <2> QED
    BY <1>1, <2>1, <2>4, <2>5 DEF Typed, hostVars
<1> QED
  BY <1>2, <1>3

\* What the host makes of the first message.
LEMMA Injected ==
  ASSUME Typed, NEW done \in 0..5, HostInjects(done)
  PROVE  LET event == Head(stream).event IN
         /\ injector \in Injector /\ IsInjective(injector.pressed_keys)
         /\ stream # <<>> /\ event \in Event /\ stream' = Tail(stream)
         /\ UNCHANGED <<user, acts, viewerVars, scrolled, reported>>
         /\ \/ /\ ~validate_input(event, Screen)
               /\ Dropped(host) /\ link' = FALSE /\ refused' = TRUE /\ turned' = turned
            \/ /\ validate_input(event, Screen) /\ done = Len(Calls(event))
               /\ host' = AfterAll(host, Calls(event)) /\ injector' = Recorded(event)
               /\ turned' = Plus(turned, Turned(Calls(event)))
               /\ link' = link /\ refused' = refused
            \/ /\ validate_input(event, Screen) /\ done \in 0..Len(Calls(event)) /\ done # Len(Calls(event))
               /\ "SendInputFails" \in Faults
               /\ turned' = Plus(turned, Turned(SubSeq(Calls(event), 1, done)))
               /\ Dropped(AfterAll(host, SubSeq(Calls(event), 1, done)))
               /\ link' = FALSE /\ refused' = refused
<1> DEFINE event == Head(stream).event
<1>1. injector \in Injector /\ IsInjective(injector.pressed_keys)
  BY DEF Typed, HostInjects
<1>2. stream # <<>> /\ event.kind # "Close" /\ stream \in Seq(Messages)
  BY DEF Typed, HostInjects
<1>3. event \in Event
  <2>1. Head(stream) \in Messages
    BY <1>2, HeadTailProperties
  <2>2. [kind |-> "Close"].kind = "Close"
    OBVIOUS
  <2> QED
    BY <1>2, <2>1, <2>2 DEF Messages
<1>4. ASSUME validate_input(event, Screen)
      PROVE  SubSeq(Calls(event), 1, Len(Calls(event))) = Calls(event)
  <2> HIDE DEF event
  <2> QED
    BY <1>1, <1>3, <1>4, CallsFit, SubSeqFull
<1>5. UNCHANGED <<user, acts, viewerVars, scrolled, reported>> /\ stream' = Tail(stream)
  BY DEF HostInjects
<1>6. CASE ~validate_input(event, Screen)
  BY <1>1, <1>2, <1>3, <1>5, <1>6 DEF HostInjects
<1>7. CASE validate_input(event, Screen) /\ done = Len(Calls(event))
  BY <1>1, <1>2, <1>3, <1>4, <1>5, <1>7 DEF HostInjects
<1>8. CASE validate_input(event, Screen) /\ done # Len(Calls(event))
  BY <1>1, <1>2, <1>3, <1>5, <1>8 DEF HostInjects
<1> QED
  BY <1>6, <1>7, <1>8

LEMMA InjectStays ==
  ASSUME Typed, NEW done \in 0..5, HostInjects(done)
  PROVE  Typed'
<1>1. PICK event \in Event :
         /\ event = Head(stream).event
         /\ injector \in Injector /\ IsInjective(injector.pressed_keys)
         /\ stream # <<>> /\ stream' = Tail(stream)
         /\ UNCHANGED <<user, acts, viewerVars, scrolled, reported>>
         /\ \/ /\ ~validate_input(event, Screen)
               /\ Dropped(host) /\ link' = FALSE /\ refused' = TRUE /\ turned' = turned
            \/ /\ validate_input(event, Screen) /\ done = Len(Calls(event))
               /\ host' = AfterAll(host, Calls(event)) /\ injector' = Recorded(event)
               /\ turned' = Plus(turned, Turned(Calls(event)))
               /\ link' = link /\ refused' = refused
            \/ /\ validate_input(event, Screen) /\ done \in 0..Len(Calls(event)) /\ done # Len(Calls(event))
               /\ "SendInputFails" \in Faults
               /\ turned' = Plus(turned, Turned(SubSeq(Calls(event), 1, done)))
               /\ Dropped(AfterAll(host, SubSeq(Calls(event), 1, done)))
               /\ link' = FALSE /\ refused' = refused
  BY Injected
<1>2. stream' \in Seq(Messages)
  BY <1>1, HeadTailProperties DEF Typed
<1>3. host \in Host /\ turned \in Int \X Int /\ link \in BOOLEAN /\ refused \in BOOLEAN
  BY DEF Typed
<1>4. /\ host' \in Host /\ turned' \in Int \X Int
      /\ injector' \in Injector \cup {None} /\ (injector' # None => IsInjective(injector'.pressed_keys))
      /\ link' \in BOOLEAN /\ refused' \in BOOLEAN
  <2>1. CASE ~validate_input(event, Screen)
    BY <1>1, <1>3, <2>1, DropFits
  <2>2. CASE validate_input(event, Screen) /\ done = Len(Calls(event))
    <3>1. host' = AfterAll(host, Calls(event)) /\ turned' = Plus(turned, Turned(Calls(event)))
          /\ injector' = Recorded(event) /\ link' = link /\ refused' = refused
      BY <1>1, <2>2
    <3>2. /\ What(Calls(event), "move") \subseteq Inside(Screen)
          /\ What(Calls(event), "down") \subseteq Button
          /\ What(Calls(event), "press") \subseteq Code
          /\ What(Calls(event), "hwheel") \subseteq Int /\ What(Calls(event), "wheel") \subseteq Int
      BY <1>1, <2>2, CallsFit
    <3>3. host' \in Host
      BY <1>3, <3>1, <3>2, HostFits
    <3>4. turned' \in Int \X Int
      BY <1>3, <3>1, <3>2, TurnedFits DEF Plus
    <3>5. injector' \in Injector /\ IsInjective(injector'.pressed_keys)
      BY <1>1, <3>1, Records
    <3> QED
      BY <1>3, <3>1, <3>3, <3>4, <3>5
  <2>3. CASE validate_input(event, Screen) /\ done # Len(Calls(event))
    <3>1. PICK c : c = SubSeq(Calls(event), 1, done)
      OBVIOUS
    <3>2. /\ done \in 0..Len(Calls(event)) /\ turned' = Plus(turned, Turned(c))
          /\ Dropped(AfterAll(host, c)) /\ link' = FALSE /\ refused' = refused
      BY <1>1, <2>3, <3>1
    <3>3. Calls(event) \in Seq(AnyCall)
      BY <1>1, <2>3, CallsFit
    <3>4. \A d : What(c, d) \subseteq What(Calls(event), d)
      BY <3>1, <3>2, <3>3, WhatOfSome
    <3>5. /\ What(c, "move") \subseteq Inside(Screen)
          /\ What(c, "down") \subseteq Button
          /\ What(c, "press") \subseteq Code
          /\ What(c, "hwheel") \subseteq Int /\ What(c, "wheel") \subseteq Int
      BY <1>1, <2>3, <3>4, CallsFit
    <3>6. AfterAll(host, c) \in Host
      BY <1>3, <3>5, HostFits
    <3>7. host' \in Host /\ injector' = None
      BY <1>1, <3>2, <3>6, DropFits
    <3>8. turned' \in Int \X Int
      BY <1>3, <3>2, <3>5, TurnedFits DEF Plus
    <3> QED
      BY <1>3, <3>2, <3>7, <3>8
  <2> QED
    BY <2>1, <2>2, <2>3
<1> QED
  BY <1>1, <1>2, <1>4 DEF Typed, viewerVars

\* What the user does stays within the window, the buttons and the keys there are.
LEMMA ActsStay ==
  ASSUME Typed, UserMoves \/ UserClicks \/ UserTypes \/ UserResizes
  PROVE  Typed'
<1>1. PICK mouse, buttons, keys, window :
        /\ user = [mouse |-> mouse, buttons |-> buttons, keys |-> keys, window |-> window]
        /\ mouse \in Inside(window) /\ mouse \in Nat \X Nat /\ window \in Size
        /\ buttons \subseteq Button /\ keys \subseteq UserKey
  BY DEF Typed
<1>2. /\ UNCHANGED <<viewerVars, stream, link, hostVars, history>>
      /\ acts' \in 0..MaxActs
  <2>1. \E next : Acts(next)
    BY DEF UserMoves, UserClicks, UserTypes, UserResizes
  <2>2. PICK next : Acts(next)
    BY <2>1
  <2>3. MaxActs \in Nat /\ acts \in 0..MaxActs
    BY InputAssumption DEF Typed
  <2>4. acts < MaxActs /\ acts' = acts + 1
    BY <2>2 DEF Acts
  <2>5. UNCHANGED <<viewerVars, stream, link, hostVars, history>>
    BY <2>2 DEF Acts
  <2> QED
    BY <2>3, <2>4, <2>5
<1>3. \A w \in Size : Inside(w) \subseteq Nat \X Nat /\ <<0, 0>> \in Inside(w)
  BY DEF Inside, Size
<1>4. /\ user' \in [mouse : Nat \X Nat, buttons : SUBSET Button, keys : SUBSET UserKey, window : Size]
      /\ user'.mouse \in Inside(user'.window)
  <2>1. CASE UserMoves
    <3>1. PICK p \in Inside(window) : user' = [mouse |-> p, buttons |-> buttons, keys |-> keys, window |-> window]
      BY <1>1, <2>1 DEF UserMoves, Acts
    <3> QED
      BY <1>1, <1>3, <3>1
  <2>2. CASE UserClicks
    <3>1. PICK b \in UserButton :
            user' = [mouse |-> mouse, buttons |-> Toggled(buttons, b), keys |-> keys, window |-> window]
      BY <1>1, <2>2 DEF UserClicks, Acts
    <3>2. Toggled(buttons, b) \subseteq Button
      BY <1>1, InputAssumption DEF Toggled
    <3> QED
      BY <1>1, <3>1, <3>2
  <2>3. CASE UserTypes
    <3>1. PICK k \in UserKey :
            user' = [mouse |-> mouse, buttons |-> buttons, keys |-> Toggled(keys, k), window |-> window]
      BY <1>1, <2>3 DEF UserTypes, Acts
    <3>2. Toggled(keys, k) \subseteq UserKey
      BY <1>1 DEF Toggled
    <3> QED
      BY <1>1, <3>1, <3>2
  <2>4. CASE UserResizes
    <3>1. PICK w \in Windows :
            user' = [mouse |-> <<0, 0>>, buttons |-> buttons, keys |-> keys, window |-> w]
      BY <1>1, <2>4 DEF UserResizes, Acts
    <3>2. w \in Size
      BY InputAssumption DEF Size
    <3> QED
      BY <1>1, <1>3, <3>1, <3>2
  <2> QED
    BY <2>1, <2>2, <2>3, <2>4
<1> QED
  BY <1>2, <1>4 DEF Typed, viewerVars, hostVars, history

LEMMA KeyframeStays ==
  ASSUME Typed, NEW decodes \in BOOLEAN, FirstKeyframe(decodes)
  PROVE  Typed'
<1>1. PICK mouse, buttons, keys, window :
        /\ user = [mouse |-> mouse, buttons |-> buttons, keys |-> keys, window |-> window]
        /\ mouse \in Inside(window) /\ mouse \in Nat \X Nat /\ window \in Size
        /\ buttons \subseteq Button /\ keys \subseteq UserKey
  BY DEF Typed
<1>2. /\ UNCHANGED <<acts, viewer, last_pointer, scroll_remainder, stream, link, hostVars, history>>
      /\ desktop_size' = Desktop
  BY DEF FirstKeyframe
<1>3. /\ user' \in [mouse : Nat \X Nat, buttons : SUBSET Button, keys : SUBSET UserKey, window : Size]
      /\ user'.mouse \in Inside(user'.window)
      /\ frame_size' \in {Placeholder, Desktop} /\ window_keys' \subseteq UserKey
  <2>1. CASE decodes /\ Desktop # Placeholder
    <3>1. frame_size' = Desktop /\ window_keys' = {}
      BY <2>1 DEF FirstKeyframe
    <3>2. PICK p \in Inside(Desktop) :
            user' = [mouse |-> p, buttons |-> buttons, keys |-> keys, window |-> Desktop]
      BY <1>1, <2>1 DEF FirstKeyframe
    <3>3. Desktop \in Size /\ Inside(Desktop) \subseteq Nat \X Nat
      BY InputAssumption DEF Size, Inside
    <3> QED
      BY <1>1, <3>1, <3>2, <3>3
  <2>2. CASE ~(decodes /\ Desktop # Placeholder)
    <3>1. /\ frame_size' = Desktop \/ frame_size' = frame_size
          /\ window_keys' = keys \/ window_keys' = window_keys
          /\ user' = user
      BY <1>1, <2>2 DEF FirstKeyframe
    <3> QED
      BY <1>1, <3>1 DEF Typed
  <2> QED
    BY <2>1, <2>2
<1> QED
  BY <1>2, <1>3 DEF Typed, hostVars, history

\* Every step keeps the shape of the state.
LEMMA TypedStep == Typed /\ [Next]_vars => Typed'
<1> SUFFICES ASSUME Typed, [Next]_vars
             PROVE  Typed'
  OBVIOUS
<1>1. CASE UserMoves \/ UserClicks \/ UserTypes \/ UserResizes
  BY <1>1, ActsStay
<1>2. CASE UserScrolls
  <2>1. PICK scroll \in Scrolls : Turn(scroll, {})
    BY <1>2 DEF UserScrolls
  <2>2. acts' \in 0..MaxActs
    <3>1. acts \in 0..MaxActs /\ acts < MaxActs /\ acts' = acts + 1 /\ MaxActs \in Nat
      BY <1>2, InputAssumption DEF UserScrolls, Typed
    <3> QED
      BY <3>1
  <2>3. scroll \in Int \X Int
    BY InputAssumption
  <2> QED
    BY <2>1, <2>2, <2>3, TurnStays
<1>3. ASSUME NEW decodes \in BOOLEAN, FirstKeyframe(decodes)
      PROVE  Typed'
  BY <1>3, KeyframeStays
<1>4. ASSUME NEW repeats \in SUBSET user.keys, ViewerTurns(repeats)
      PROVE  Typed'
  <2>1. acts' \in 0..MaxActs /\ <<0, 0>> \in Int \X Int /\ Turn(<<0, 0>>, repeats)
    BY <1>4 DEF ViewerTurns, Typed
  <2> QED
    BY <2>1, TurnStays
<1>5. CASE ViewerCloses
  <2>1. Message([kind |-> "Close"], reported) \in Messages
    BY DEF Message, Messages, Typed
  <2>2. stream' = Append(stream, Message([kind |-> "Close"], reported)) /\ stream \in Seq(Messages)
    BY <1>5 DEF ViewerCloses, Typed
  <2>3. stream' \in Seq(Messages)
    BY <2>1, <2>2, AppendProperties
  <2> QED
    BY <1>5, <2>3 DEF ViewerCloses, Typed, hostVars, history
<1>6. ASSUME NEW done \in 0..5, HostInjects(done)
      PROVE  Typed'
  BY <1>6, InjectStays
<1>7. CASE HostStops \/ HostFails
  <2>1. /\ Ends /\ Dropped(host) /\ link' = FALSE /\ injector \in Injector
        /\ UNCHANGED <<user, acts, viewerVars, stream, turned, history>>
    BY <1>7 DEF HostStops, HostFails, Ends, HostLets, Typed
  <2>2. host' \in Host /\ injector' = None
    BY <2>1, DropFits DEF Typed
  <2> QED
    BY <2>1, <2>2 DEF Typed, viewerVars, history
<1>8. CASE LinkBreaks
  <2>1. PICK n \in 0..Len(stream) : stream' = SubSeq(stream, 1, n)
    BY <1>8 DEF LinkBreaks
  <2>2. stream \in Seq(Messages) /\ Len(stream) \in Nat
    BY LenProperties DEF Typed
  <2>3. n \in Int /\ 1 \in Int /\ \A i \in 1..n : stream[i] \in Messages
    BY <2>2, ElementOfSeq
  <2>4. stream' \in Seq(Messages)
    BY <2>1, <2>3, SubSeqProperties
  <2> QED
    BY <1>8, <2>4 DEF LinkBreaks, Typed, viewerVars, hostVars, history
<1>9. CASE UNCHANGED vars
  BY <1>9 DEF vars, Typed, viewerVars, hostVars, history
<1>10. CASE Presents
  BY <1>10 DEF Presents, Typed, hostVars, history
<1> QED
  BY <1>1, <1>2, <1>3, <1>4, <1>5, <1>6, <1>7, <1>8, <1>9, <1>10 DEF Next

LEMMA TypedInvariant == Spec => []Typed
<1>1. Init => Typed
  <2> SUFFICES ASSUME Init
               PROVE  Typed
    OBVIOUS
  <2>1. Placeholder \in Size /\ Screen \in Size
    BY InputAssumption DEF Size
  <2>2. <<0, 0>> \in Inside(Placeholder) /\ <<0, 0>> \in Inside(Screen)
    BY <2>1 DEF Size, Inside
  <2>3. injector \in Injector /\ IsInjective(injector.pressed_keys)
    BY DEF Init, Injector, IsInjective
  <2>4. host \in Host
    BY <2>2 DEF Init, Host
  <2>5. acts \in 0..MaxActs
    BY InputAssumption DEF Init
  <2>6. /\ user \in [mouse : Nat \X Nat, buttons : SUBSET Button, keys : SUBSET UserKey, window : Size]
        /\ user.mouse \in Inside(user.window)
    <3>1. user = [mouse |-> <<0, 0>>, buttons |-> {}, keys |-> {}, window |-> Placeholder]
      BY DEF Init
    <3> QED
      BY <2>1, <2>2, <3>1
  <2>7. stream \in Seq(Messages) /\ scroll_remainder \in Int \X Int
        /\ scrolled \in Int \X Int /\ turned \in Int \X Int
    BY DEF Init
  <2>8. /\ viewer = "open" /\ desktop_size = None /\ frame_size = Placeholder
        /\ window_keys = {} /\ link = TRUE /\ reported = {} /\ refused = FALSE
    BY DEF Init
  <2> QED
    BY <2>3, <2>4, <2>5, <2>6, <2>7, <2>8 DEF Typed
<1> QED
  BY <1>1, TypedStep, PTL DEF Spec

\* The pointer stays inside the window at the one end and inside the desktop at the
\* other; buttons and keys are those there are, and the injector lists no key twice.
THEOREM InputTypes == Spec => []TypeOK
<1>1. Typed => TypeOK
  <2> SUFFICES ASSUME Typed
               PROVE  TypeOK
    OBVIOUS
  <2>1. injector # None => injector.buttons \subseteq Button
    BY DEF Typed, Injector
  <2>2. /\ host.pointer \in Inside(Screen) /\ host.buttons \subseteq Button
        /\ host.keys \subseteq { windows_key_mapping[k] : k \in Key }
    BY DEF Typed, Host, Code
  <2>3. \A i \in 1..2 : scroll_remainder[i] \in Int
    BY DEF Typed
  <2> QED
    BY <2>1, <2>2, <2>3 DEF Typed, TypeOK
<1> QED
  BY <1>1, TypedInvariant, PTL

-----------------------------------------------------------------------------
\* What is down on the host is what the injector remembers, as long as there is one.
HoldsKeys == injector # None => host.keys = Held(injector)
HoldsButtons == injector # None => host.buttons = injector.buttons

LEMMA InjectsKeys ==
  ASSUME Typed, HoldsKeys, injector \in Injector, NEW e \in Event, validate_input(e, Screen)
  PROVE  AfterAll(host, Calls(e)).keys = Held(Recorded(e))
<1>1. host.keys = Held(injector) /\ injector.buttons \subseteq Button /\ IsInjective(injector.pressed_keys)
  BY NotNone DEF HoldsKeys, Typed, Injector
<1>2. AfterAll(host, Calls(e)).keys =
        (host.keys \cup What(Calls(e), "press")) \ What(Calls(e), "release")
  BY DEF AfterAll
<1>3. Range(Recorded(e).pressed_keys) =
        IF e.kind # "Key" THEN Range(injector.pressed_keys)
        ELSE IF e.pressed THEN Range(injector.pressed_keys) \cup {e.key}
        ELSE Range(injector.pressed_keys) \ {e.key}
  BY <1>1, Records
<1>4. CASE e.kind = "Pointer"
  <2>1. e.at \in Inside(Screen) /\ e.buttons \subseteq Button
    BY <1>4, Kinds DEF validate_input
  <2>2. What(Calls(e), "press") = {} /\ What(Calls(e), "release") = {}
    BY <1>1, <1>4, <2>1, PointerCalls
  <2> QED
    BY <1>1, <1>2, <1>3, <1>4, <2>2 DEF Held
<1>5. CASE e.kind = "Wheel"
  <2>1. e.delta \in Int \X Int
    BY <1>5, Kinds
  <2>2. What(Calls(e), "press") = {} /\ What(Calls(e), "release") = {}
    BY <1>5, <2>1, WheelCalls
  <2> QED
    BY <1>1, <1>2, <1>3, <1>5, <2>2 DEF Held
<1>6. CASE e.kind = "Key"
  <2>1. e.key \in Key /\ e.pressed \in BOOLEAN
    BY <1>6, Kinds
  <2>2. /\ What(Calls(e), "press") = IF e.pressed THEN {windows_key_mapping[e.key]} ELSE {}
        /\ What(Calls(e), "release") = IF e.pressed THEN {} ELSE {windows_key_mapping[e.key]}
    BY <1>6, <2>1, KeyCalls
  <2>3. Range(injector.pressed_keys) \subseteq Key
    BY LenProperties, ElementOfSeq DEF Injector, Range
  <2>4. PICK remembered \in SUBSET Key : remembered = Range(injector.pressed_keys)
    BY <2>3
  <2>5. CASE e.pressed
    <3>1. Range(Recorded(e).pressed_keys) = remembered \cup {e.key}
      BY <1>3, <1>6, <2>4, <2>5
    <3> QED
      BY <1>1, <1>2, <2>2, <2>4, <2>5, <3>1 DEF Held
  <2>6. CASE ~e.pressed
    <3>1. Range(Recorded(e).pressed_keys) = remembered \ {e.key}
      BY <1>3, <1>6, <2>4, <2>6
    <3>2. \A k \in remembered : windows_key_mapping[k] = windows_key_mapping[e.key] => k = e.key
      BY <2>1, Keys
    <3>3. { windows_key_mapping[k] : k \in remembered } \ {windows_key_mapping[e.key]}
          = { windows_key_mapping[k] : k \in remembered \ {e.key} }
      BY <3>2
    <3> QED
      BY <1>1, <1>2, <2>2, <2>4, <2>6, <3>1, <3>3 DEF Held
  <2> QED
    BY <2>5, <2>6
<1> QED
  BY <1>4, <1>5, <1>6, Kinds

LEMMA InjectsButtons ==
  ASSUME Typed, HoldsButtons, injector \in Injector, NEW e \in Event, validate_input(e, Screen)
  PROVE  AfterAll(host, Calls(e)).buttons = Recorded(e).buttons
<1>1. host.buttons = injector.buttons /\ injector.buttons \subseteq Button
      /\ IsInjective(injector.pressed_keys)
  BY NotNone DEF HoldsButtons, Typed, Injector
<1>2. AfterAll(host, Calls(e)).buttons =
        (host.buttons \cup What(Calls(e), "down")) \ What(Calls(e), "up")
  BY DEF AfterAll
<1>3. Recorded(e).buttons = IF e.kind = "Pointer" THEN e.buttons ELSE injector.buttons
  BY <1>1, Records
<1>4. CASE e.kind = "Pointer"
  <2>1. e.at \in Inside(Screen) /\ e.buttons \subseteq Button
    BY <1>4, Kinds DEF validate_input
  <2>2. /\ What(Calls(e), "down") = e.buttons \ injector.buttons
        /\ What(Calls(e), "up") = injector.buttons \ e.buttons
    BY <1>1, <1>4, <2>1, PointerCalls
  <2> QED
    BY <1>1, <1>2, <1>3, <1>4, <2>2
<1>5. CASE e.kind = "Wheel"
  <2>1. What(Calls(e), "down") = {} /\ What(Calls(e), "up") = {}
    BY <1>5, Kinds, WheelCalls
  <2> QED
    BY <1>1, <1>2, <1>3, <1>5, <2>1
<1>6. CASE e.kind = "Key"
  <2>1. What(Calls(e), "down") = {} /\ What(Calls(e), "up") = {}
    BY <1>6, Kinds, KeyCalls
  <2> QED
    BY <1>1, <1>2, <1>3, <1>6, <2>1
<1> QED
  BY <1>4, <1>5, <1>6, Kinds

\* An event that gets through in part changes no key: a key takes one call.
LEMMA KeysInPart ==
  ASSUME injector \in Injector, NEW e \in Event, validate_input(e, Screen),
         NEW done \in 0..Len(Calls(e)), done # Len(Calls(e))
  PROVE  AfterAll(host, SubSeq(Calls(e), 1, done)).keys = host.keys
<1>1. PICK c : c = SubSeq(Calls(e), 1, done)
  OBVIOUS
<1>2. Calls(e) \in Seq(AnyCall) /\ injector.buttons \subseteq Button
  BY CallsFit DEF Injector
<1>3. \A d : What(c, d) \subseteq What(Calls(e), d)
  BY <1>1, <1>2, WhatOfSome
<1>4. What(c, "press") = {} /\ What(c, "release") = {}
  <2>1. CASE e.kind = "Pointer"
    <3>1. e.at \in Inside(Screen) /\ e.buttons \subseteq Button
      BY <2>1, Kinds DEF validate_input
    <3>2. What(Calls(e), "press") = {} /\ What(Calls(e), "release") = {}
      BY <1>2, <2>1, <3>1, PointerCalls
    <3> QED
      BY <1>3, <3>2
  <2>2. CASE e.kind = "Wheel"
    <3>1. What(Calls(e), "press") = {} /\ What(Calls(e), "release") = {}
      BY <2>2, Kinds, WheelCalls
    <3> QED
      BY <1>3, <3>1
  <2>3. CASE e.kind = "Key"
    <3>1. Len(Calls(e)) = 1
      BY <2>3, Kinds, KeyCalls
    <3>2. done = 0
      BY <3>1
    <3>3. c = <<>>
      BY <1>1, <3>2, SubSeqEmpty
    <3> QED
      BY <3>3 DEF What
  <2> QED
    BY <2>1, <2>2, <2>3, Kinds
<1> QED
  BY <1>1, <1>4 DEF AfterAll

\* An injector that goes lets go of what it remembers, if Windows takes its calls.
LEMMA Drops ==
  ASSUME "SendInputFails" \notin Faults, HoldsKeys, HoldsButtons, injector \in Injector, Dropped(host)
  PROVE  host'.keys = {} /\ host'.buttons = {}
<1>1. host.keys = Held(injector) /\ host.buttons = injector.buttons
  BY NotNone DEF HoldsKeys, HoldsButtons
<1>2. /\ What(Releases(injector), "release") = Held(injector) /\ What(Releases(injector), "press") = {}
      /\ What(Releases(injector), "up") = injector.buttons /\ What(Releases(injector), "down") = {}
  BY ReleaseCalls
<1>3. PICK lifted : lifted = AfterAll(host, Releases(injector))
  OBVIOUS
<1>4. host' = [lifted EXCEPT !.keys = @ \cup {}, !.buttons = @ \cup {}]
  BY <1>3 DEF Dropped
<1>5. lifted.keys = {} /\ lifted.buttons = {} /\ host'.keys = lifted.keys /\ host'.buttons = lifted.buttons
  BY <1>1, <1>2, <1>3, <1>4 DEF AfterAll
<1> QED
  BY <1>5

\* Only the host's own actions change what is down.
LEMMA HostActs ==
  ASSUME [Next]_vars
  PROVE  UNCHANGED hostVars \/ Ends \/ \E done \in 0..5 : HostInjects(done)
<1>1. ASSUME NEW scroll, NEW repeats, Turn(scroll, repeats)
      PROVE  UNCHANGED hostVars
  BY <1>1 DEF Turn
<1>2. UserMoves \/ UserClicks \/ UserTypes \/ UserResizes => UNCHANGED hostVars
  BY DEF UserMoves, UserClicks, UserTypes, UserResizes, Acts
<1>3. UserScrolls => UNCHANGED hostVars
  BY <1>1 DEF UserScrolls
<1>4. ASSUME NEW repeats, ViewerTurns(repeats)
      PROVE  UNCHANGED hostVars
  BY <1>1, <1>4 DEF ViewerTurns
<1>5. ASSUME NEW decodes, FirstKeyframe(decodes)
      PROVE  UNCHANGED hostVars
  BY <1>5 DEF FirstKeyframe
<1>6. Presents \/ ViewerCloses \/ LinkBreaks \/ UNCHANGED vars => UNCHANGED hostVars
  BY DEF Presents, ViewerCloses, LinkBreaks, vars
<1>7. HostStops \/ HostFails => Ends
  BY DEF HostStops, HostFails
<1> QED
  BY <1>2, <1>3, <1>4, <1>5, <1>6, <1>7 DEF Next

LEMMA KeysStep ==
  ASSUME Typed, HoldsKeys, [Next]_vars
  PROVE  HoldsKeys'
<1>1. CASE UNCHANGED hostVars
  BY <1>1 DEF HoldsKeys, hostVars, Held
<1>2. CASE Ends
  BY <1>2 DEF Ends, HostLets, Dropped, HoldsKeys
<1>3. ASSUME NEW done \in 0..5, HostInjects(done)
      PROVE  HoldsKeys'
  <2>1. PICK event \in Event :
          /\ injector \in Injector
          /\ \/ injector' = None
             \/ /\ validate_input(event, Screen)
                /\ host' = AfterAll(host, Calls(event)) /\ injector' = Recorded(event)
    BY <1>3, Injected DEF Dropped
  <2>2. CASE injector' = None
    BY <2>2 DEF HoldsKeys
  <2>3. CASE /\ validate_input(event, Screen)
             /\ host' = AfterAll(host, Calls(event)) /\ injector' = Recorded(event)
    <3>1. host'.keys = Held(injector')
      BY <2>1, <2>3, InjectsKeys
    <3> QED
      BY <3>1 DEF HoldsKeys, Held
  <2> QED
    BY <2>1, <2>2, <2>3
<1> QED
  BY <1>1, <1>2, <1>3, HostActs

LEMMA ButtonsStep ==
  ASSUME Typed, HoldsButtons, [Next]_vars
  PROVE  HoldsButtons'
<1>1. CASE UNCHANGED hostVars
  BY <1>1 DEF HoldsButtons, hostVars
<1>2. CASE Ends
  BY <1>2 DEF Ends, HostLets, Dropped, HoldsButtons
<1>3. ASSUME NEW done \in 0..5, HostInjects(done)
      PROVE  HoldsButtons'
  <2>1. PICK event \in Event :
          /\ injector \in Injector
          /\ \/ injector' = None
             \/ /\ validate_input(event, Screen)
                /\ host' = AfterAll(host, Calls(event)) /\ injector' = Recorded(event)
    BY <1>3, Injected DEF Dropped
  <2>2. CASE injector' = None
    BY <2>2 DEF HoldsButtons
  <2>3. CASE /\ validate_input(event, Screen)
             /\ host' = AfterAll(host, Calls(event)) /\ injector' = Recorded(event)
    <3>1. host'.buttons = injector'.buttons
      BY <2>1, <2>3, InjectsButtons
    <3> QED
      BY <3>1 DEF HoldsButtons
  <2> QED
    BY <2>1, <2>2, <2>3
<1> QED
  BY <1>1, <1>2, <1>3, HostActs

LEMMA HoldsAtFirst == Init => HoldsKeys /\ HoldsButtons
<1> SUFFICES ASSUME Init
             PROVE  HoldsKeys /\ HoldsButtons
  OBVIOUS
<1>1. injector.buttons = {} /\ injector.pressed_keys = <<>> /\ host.keys = {} /\ host.buttons = {}
  BY DEF Init
<1>2. Held(injector) = {}
  BY <1>1 DEF Held, Range
<1> QED
  BY <1>1, <1>2 DEF HoldsKeys, HoldsButtons

\* As long as the control task runs, the injector remembers exactly the keys and the
\* buttons that are down on the host, so that whatever ends the task finds them all to
\* let go of: repeated presses, releases of keys that are not down, and buttons that
\* change together included.  This holds even if Windows refuses calls, for the first
\* that fails ends the task.
THEOREM WhatIsDownIsRemembered ==
  Spec => [](injector # None => host.keys = Held(injector) /\ host.buttons = injector.buttons)
<1>1. Typed /\ HoldsKeys /\ HoldsButtons /\ [Next]_vars => HoldsKeys' /\ HoldsButtons'
  BY KeysStep, ButtonsStep
<1>2. HoldsKeys /\ HoldsButtons
      => (injector # None => host.keys = Held(injector) /\ host.buttons = injector.buttons)
  BY DEF HoldsKeys, HoldsButtons
<1> QED
  BY <1>1, <1>2, HoldsAtFirst, TypedInvariant, PTL DEF Spec

\* Neither a key nor a button stays down on the host once its control task is gone,
\* whichever way it ends, as long as Windows takes every call.  If it refuses one, a
\* pointer event may have been injected in part and recorded not at all, and the calls
\* that let go may fail as well: their errors are ignored.
THEOREM NothingHeld ==
  ASSUME "SendInputFails" \notin Faults
  PROVE  Spec => []NothingStaysHeld
<1>1. Typed /\ HoldsKeys /\ HoldsButtons /\ NothingStaysHeld /\ [Next]_vars => NothingStaysHeld'
  <2> SUFFICES ASSUME Typed, HoldsKeys, HoldsButtons, NothingStaysHeld, [Next]_vars, injector' = None
               PROVE  host'.keys = {} /\ host'.buttons = {}
    BY DEF NothingStaysHeld
  <2>1. CASE UNCHANGED hostVars
    BY <2>1 DEF NothingStaysHeld, hostVars
  <2>2. CASE Ends
    BY <2>2, Drops DEF Ends, HostLets, Typed
  <2>3. ASSUME NEW done \in 0..5, HostInjects(done)
        PROVE  host'.keys = {} /\ host'.buttons = {}
    <3>1. PICK event \in Event :
            /\ injector \in Injector /\ IsInjective(injector.pressed_keys)
            /\ Dropped(host) \/ injector' = Recorded(event)
      BY <2>3, Injected
    <3>2. Dropped(host)
      BY <3>1, Records, NotNone
    <3> QED
      BY <3>1, <3>2, Drops
  <2> QED
    BY <2>1, <2>2, <2>3, HostActs
<1>2. Init => NothingStaysHeld
  BY NotNone DEF Init, NothingStaysHeld, Injector
<1>3. Typed /\ HoldsKeys /\ HoldsButtons /\ [Next]_vars => HoldsKeys' /\ HoldsButtons'
  BY KeysStep, ButtonsStep
<1> QED
  BY <1>1, <1>2, <1>3, HoldsAtFirst, TypedInvariant, PTL DEF Spec

-----------------------------------------------------------------------------
\* What is under way the host finds valid, and once the desktop's size is known the window shows
\* its picture, unless the first one could not be decoded.
Sound(messages) ==
  \A n \in 1..Len(messages) : messages[n].event.kind # "Close" => validate_input(messages[n].event, Screen)
Fine ==
  /\ ~refused /\ Sound(stream)
  /\ desktop_size # None /\ "Undecodable" \notin Faults => frame_size = Desktop

Covered ==
  /\ "Undecodable" \notin Faults \/ Inside(Placeholder) \subseteq Inside(Desktop)
  /\ Inside(Desktop) \subseteq Inside(Screen)

LEMMA FineTurn ==
  ASSUME Covered, Typed, Fine, NEW scroll \in Int \X Int, NEW repeats, Turn(scroll, repeats)
  PROVE  Fine'
<1>1. UNCHANGED <<desktop_size, frame_size>>
  BY DEF Turn
<1>2. CASE desktop_size = None
  <2>1. UNCHANGED <<stream, refused>>
    BY <1>2 DEF Turn, history
  <2> QED
    BY <1>1, <2>1 DEF Fine, Sound
<1>3. CASE desktop_size # None
  <2>1. validate_input(Pointer, Desktop)
    <3>1. Pointer.kind = "Pointer" /\ Pointer.at \in Inside(frame_size)
      BY PointerFits
    <3>2. Inside(frame_size) \subseteq Inside(Desktop)
      BY <1>3 DEF Covered, Fine, Typed
    <3> QED
      BY <3>1, <3>2 DEF validate_input
  <2>2. PICK sent \in Seq(Event) :
          /\ stream' = stream \o [i \in DOMAIN sent |-> Message(sent[i], reported')]
          /\ \A i \in 1..Len(sent) : validate_input(sent[i], Desktop)
          /\ refused' = refused /\ reported' \subseteq Key
    BY <1>3, <2>1, TurnDoes
  <2>10. ASSUME NEW e \in Event, validate_input(e, Desktop)
         PROVE  validate_input(e, Screen)
    BY <2>10, Kinds DEF Covered, validate_input
  <2>3. PICK held \in SUBSET Key : held = reported'
    BY <2>2
  <2>4. PICK more \in Seq(Messages) : more = [i \in DOMAIN sent |-> Message(sent[i], held)]
    <3>1. stream \in Seq(Messages)
      BY DEF Typed
    <3> QED
      BY <3>1, Posted
  <2>5. Len(sent) \in Nat /\ DOMAIN sent = 1..Len(sent) /\ DOMAIN more = 1..Len(more) /\ Len(more) \in Nat
    BY LenProperties
  <2>6. \A i \in 1..Len(more) : validate_input(more[i].event, Screen)
    <3>1. 1..Len(more) = 1..Len(sent)
      BY <2>4, <2>5
    <3>2. \A i \in 1..Len(sent) : sent[i] \in Event
      BY ElementOfSeq
    <3>3. \A i \in 1..Len(sent) : validate_input(sent[i], Screen)
      BY <2>2, <2>10, <3>2
    <3> QED
      BY <2>4, <2>5, <3>1, <3>3 DEF Message
  <2>7. stream \in Seq(Messages) /\ stream' = stream \o more /\ Len(stream) \in Nat
    BY <2>2, <2>3, <2>4, LenProperties DEF Typed
  <2>8. /\ Len(stream \o more) = Len(stream) + Len(more)
        /\ \A i \in 1..Len(stream) + Len(more) :
             (stream \o more)[i] = IF i <= Len(stream) THEN stream[i] ELSE more[i - Len(stream)]
    BY <2>7, ConcatProperties
  <2>9. Sound(stream')
    <3> SUFFICES ASSUME NEW n \in 1..Len(stream'), stream'[n].event.kind # "Close"
                 PROVE  validate_input(stream'[n].event, Screen)
      BY DEF Sound
    <3>0. n \in 1..Len(stream) + Len(more)
      BY <2>7, <2>8
    <3>1. CASE n <= Len(stream)
      <4>1. n \in 1..Len(stream) /\ stream'[n] = stream[n]
        BY <2>7, <2>8, <3>0, <3>1
      <4> QED
        BY <4>1 DEF Fine, Sound
    <3>2. CASE ~(n <= Len(stream))
      <4>1. n - Len(stream) \in 1..Len(more) /\ stream'[n] = more[n - Len(stream)]
        BY <2>5, <2>7, <2>8, <3>0, <3>2
      <4> QED
        BY <2>6, <4>1
    <3> QED
      BY <3>1, <3>2
  <2> QED
    BY <1>1, <2>2, <2>9 DEF Fine
<1> QED
  BY <1>2, <1>3

LEMMA FineInject ==
  ASSUME Typed, Fine, NEW done \in 0..5, HostInjects(done)
  PROVE  Fine'
<1>1. PICK event \in Event :
        /\ event = Head(stream).event /\ stream # <<>> /\ stream' = Tail(stream)
        /\ UNCHANGED viewerVars
        /\ validate_input(event, Screen) => refused' = refused
  BY Injected
<1>2. /\ stream \in Seq(Messages) /\ Len(stream) \in Nat /\ Len(stream) # 0
      /\ Head(stream) = stream[1] /\ Len(Tail(stream)) = Len(stream) - 1
      /\ \A n \in 1..Len(stream) - 1 : Tail(stream)[n] = stream[n + 1]
  <2>1. stream \in Seq(Messages)
    BY DEF Typed
  <2>2. Len(stream) # 0
    BY <1>1, <2>1, EmptySeq
  <2> QED
    BY <1>1, <2>1, <2>2, HeadTailProperties, LenProperties
<1>3. validate_input(event, Screen)
  <2>1. 1 \in 1..Len(stream)
    BY <1>2
  <2> QED
    BY <1>1, <1>2, <2>1, Kinds DEF Fine, Sound
<1>4. Sound(stream')
  <2>1. \A n \in 1..Len(stream) - 1 : n + 1 \in 1..Len(stream)
    BY <1>2
  <2> QED
    BY <1>1, <1>2, <2>1 DEF Fine, Sound
<1> QED
  BY <1>1, <1>3, <1>4 DEF Fine, viewerVars

LEMMA FineStep ==
  ASSUME Covered, Typed, Fine, [Next]_vars
  PROVE  Fine'
<1>1. CASE UNCHANGED <<stream, refused, desktop_size, frame_size>>
  BY <1>1 DEF Fine, Sound
<1>2. UserMoves \/ UserClicks \/ UserTypes \/ UserResizes
      => UNCHANGED <<stream, refused, desktop_size, frame_size>>
  BY DEF UserMoves, UserClicks, UserTypes, UserResizes, Acts, viewerVars, history
<1>3. Presents \/ HostStops \/ HostFails \/ UNCHANGED vars
      => UNCHANGED <<stream, refused, desktop_size, frame_size>>
  BY DEF Presents, HostStops, HostFails, Ends, vars, viewerVars, history
<1>4. CASE UserScrolls
  <2>1. PICK scroll \in Scrolls : Turn(scroll, {})
    BY <1>4 DEF UserScrolls
  <2> QED
    BY <2>1, FineTurn, InputAssumption
<1>5. ASSUME NEW repeats, ViewerTurns(repeats)
      PROVE  Fine'
  <2>1. Turn(<<0, 0>>, repeats) /\ <<0, 0>> \in Int \X Int
    BY <1>5 DEF ViewerTurns
  <2> QED
    BY <2>1, FineTurn
<1>6. ASSUME NEW decodes, FirstKeyframe(decodes)
      PROVE  Fine'
  <2>1. UNCHANGED <<stream, refused>> /\ ("Undecodable" \notin Faults => frame_size' = Desktop)
    BY <1>6 DEF FirstKeyframe, history
  <2> QED
    BY <2>1 DEF Fine, Sound
<1>7. CASE ViewerCloses
  <2>1. PICK m : m = Message([kind |-> "Close"], reported)
    OBVIOUS
  <2>2. m \in Messages /\ m.event.kind = "Close"
    BY <2>1 DEF Message, Messages, Typed
  <2>3. stream \in Seq(Messages) /\ Len(stream) \in Nat /\ stream' = Append(stream, m)
    BY <1>7, <2>1, LenProperties DEF ViewerCloses, Typed
  <2>4. /\ Len(stream') = Len(stream) + 1 /\ stream'[Len(stream) + 1] = m
        /\ \A n \in 1..Len(stream) : stream'[n] = stream[n]
    BY <2>2, <2>3, AppendProperties
  <2>5. \A n \in 1..Len(stream) + 1 : n \in 1..Len(stream) \/ n = Len(stream) + 1
    BY <2>3
  <2>6. Sound(stream')
    BY <2>2, <2>4, <2>5 DEF Fine, Sound
  <2> QED
    BY <1>7, <2>6 DEF ViewerCloses, Fine, history
<1>8. ASSUME NEW done \in 0..5, HostInjects(done)
      PROVE  Fine'
  BY <1>8, FineInject
<1>9. CASE LinkBreaks
  <2>1. PICK n \in 0..Len(stream) : stream' = SubSeq(stream, 1, n)
    BY <1>9 DEF LinkBreaks
  <2>2. stream \in Seq(Messages) /\ Len(stream) \in Nat
    BY LenProperties DEF Typed
  <2>3. Len(stream') = n /\ \A k \in 1..n : stream'[k] = stream[k] /\ k \in 1..Len(stream)
    <3>1. n \in Int /\ 1 \in Int /\ n \in Nat /\ \A k \in 1..n : k \in 1..Len(stream)
      BY <2>2
    <3>2. \A k \in 1..n : stream[k] \in Messages
      BY <2>2, <3>1, ElementOfSeq
    <3> QED
      BY <2>1, <3>1, <3>2, SubSeqProperties
  <2>4. Sound(stream')
    BY <2>3 DEF Fine, Sound
  <2> QED
    BY <1>9, <2>4 DEF LinkBreaks, Fine, viewerVars, history
<1> QED
  BY <1>1, <1>2, <1>3, <1>4, <1>5, <1>6, <1>7, <1>8, <1>9 DEF Next

\* No user ends a session by pointing: whatever the sizes of the window, the placeholder
\* and the pictures, both ends find every event of the window valid, if the pictures fit
\* into the screen Windows tells the host and if the first of them can be decoded or the
\* placeholder is no larger.
THEOREM OwnInput ==
  ASSUME Covered
  PROVE  Spec => []OwnInputIsAccepted
<1>1. Init => Fine
  BY DEF Init, Fine, Sound
<1>2. Typed /\ Fine /\ [Next]_vars => Fine'
  BY FineStep
<1>3. Fine => OwnInputIsAccepted
  BY DEF Fine, OwnInputIsAccepted
<1> QED
  BY <1>1, <1>2, <1>3, TypedInvariant, PTL DEF Spec

-----------------------------------------------------------------------------
\* Partial sums, and two of them that grow alike.
LEMMA Alike ==
  ASSUME NEW N \in Nat, NEW f \in [0..N -> Int], NEW g \in [0..N -> Int],
         \A n \in 1..N : f[n] - f[n - 1] = g[n] - g[n - 1]
  PROVE  \A n \in 0..N : f[n] - f[0] = g[n] - g[0]
<1> DEFINE bad == { n \in 0..N : f[n] - f[0] # g[n] - g[0] }
<1>1. CASE bad = {}
  BY <1>1
<1>2. CASE bad # {}
  <2>1. bad \in SUBSET Nat
    OBVIOUS
  <2>2. PICK m \in bad : \A n \in bad : m <= n
    <3> HIDE DEF bad
    <3> QED
      BY <1>2, <2>1, Least
  <2>3. m \in 0..N /\ f[m] - f[0] # g[m] - g[0]
    BY <2>2
  <2>4. m # 0
    <3>1. f[0] \in Int /\ g[0] \in Int
      OBVIOUS
    <3> QED
      BY <2>3, <3>1
  <2>5. m \in 1..N /\ m - 1 \in 0..N
    BY <2>3, <2>4
  <2>6. m - 1 \notin bad
    BY <2>2, <2>5
  <2>7. f[m - 1] - f[0] = g[m - 1] - g[0]
    BY <2>5, <2>6
  <2>8. f[m] - f[m - 1] = g[m] - g[m - 1]
    BY <2>5
  <2>9. PICK u \in Int, v \in Int, w \in Int, x \in Int, y \in Int, z \in Int :
          /\ u = f[m] /\ v = f[m - 1] /\ w = g[m] /\ x = g[m - 1]
          /\ y = f[0] /\ z = g[0]
    <3>1. 0 \in 0..N
      OBVIOUS
    <3> QED
      BY <2>3, <2>5, <3>1
  <2>10. v - y = x - z /\ u - v = w - x
    BY <2>7, <2>8, <2>9
  <2>11. u - y = w - z
    BY <2>10
  <2> QED
    BY <2>3, <2>9, <2>11
<1> QED
  BY <1>1, <1>2

LEMMA SumsExist ==
  ASSUME NEW N \in Nat, NEW s \in [1..N -> Int]
  PROVE  \E f \in [0..N -> Int] :
           f = [n \in 0..N |-> IF n = 0 THEN 0 ELSE f[n - 1] + s[n]]
<1> DEFINE Sum(k, f) == f = [n \in 0..k |-> IF n = 0 THEN 0 ELSE f[n - 1] + s[n]]
           Good(k) == \E f \in [0..k -> Int] : Sum(k, f)
           bad == { k \in 0..N : ~Good(k) }
<1>0. \A k \in 0..N : k \notin bad => Good(k)
  <2> HIDE DEF Good
  <2> QED
    OBVIOUS
<1>1. ASSUME bad # {}
      PROVE  FALSE
  <2>1. bad \in SUBSET Nat
    OBVIOUS
  <2>2. PICK m \in bad : \A n \in bad : m <= n
    <3> HIDE DEF bad
    <3> QED
      BY <1>1, <2>1, Least
  <2>3. m \in 0..N /\ ~Good(m)
    BY <2>2
  <2>4. CASE m = 0
    <3>1. PICK f : f = [n \in 0..0 |-> 0]
      OBVIOUS
    <3>2. f \in [0..0 -> Int] /\ f = [n \in 0..0 |-> IF n = 0 THEN 0 ELSE f[n - 1] + s[n]]
      BY <3>1
    <3> QED
      BY <2>3, <2>4, <3>2
  <2>5. CASE m # 0
    <3>1. m - 1 \in 0..N /\ m \in 1..N
      BY <2>3, <2>5
    <3>2. m - 1 \notin bad
      <4> HIDE DEF bad
      <4> QED
        BY <2>2, <3>1
    <3>3. PICK f \in [0..m - 1 -> Int] : Sum(m - 1, f)
      BY <1>0, <3>1, <3>2
    <3>4. \A n \in 0..m - 1 : f[n] = IF n = 0 THEN 0 ELSE f[n - 1] + s[n]
      BY <3>3
    <3>5. PICK g : g = [n \in 0..m |-> IF n = m THEN f[m - 1] + s[m] ELSE f[n]]
      OBVIOUS
    <3>6. g \in [0..m -> Int]
      BY <3>1, <3>5
    <3>7. \A n \in 0..m : g[n] = IF n = 0 THEN 0 ELSE g[n - 1] + s[n]
      <4> TAKE n \in 0..m
      <4>1. CASE n = m
        BY <3>1, <3>5, <4>1
      <4>2. CASE n # m
        <5>1. n \in 0..m - 1 /\ (n # 0 => n - 1 \in 0..m /\ n - 1 # m)
          BY <3>1, <4>2
        <5> QED
          BY <3>4, <3>5, <4>2, <5>1
      <4> QED
        BY <4>1, <4>2
    <3>8. Sum(m, g)
      BY <3>5, <3>7
    <3> QED
      BY <2>3, <3>6, <3>8
  <2> QED
    BY <2>4, <2>5
<1>2. N \in 0..N
  OBVIOUS
<1>3. N \notin bad
  <2> HIDE DEF bad
  <2> QED
    BY <1>1
<1> QED
  BY <1>0, <1>2, <1>3

\* What is under way is the last of its partial sums.
LEMMA Sums ==
  ASSUME NEW q \in Seq(Messages), NEW i \in 1..2
  PROVE  /\ \A n \in 1..Len(q) : Steps(q[n], i) \in Int
         /\ \E f \in [0..Len(q) -> Int] :
              /\ f[0] = 0 /\ \A n \in 1..Len(q) : f[n] = f[n - 1] + Steps(q[n], i)
              /\ UnderWay(q, i) = f[Len(q)]
<1>1. Len(q) \in Nat /\ \A n \in 1..Len(q) : q[n] \in Messages
  BY LenProperties, ElementOfSeq
<1>2. \A n \in 1..Len(q) : Steps(q[n], i) \in Int
  <2> TAKE n \in 1..Len(q)
  <2>1. PICK e : e = q[n].event
    OBVIOUS
  <2>2. e \in Event \/ e.kind = "Close"
    BY <1>1, <2>1 DEF Messages
  <2>3. e.kind = "Wheel" => e.delta \in Int \X Int
    BY <2>2, Kinds
  <2>4. e.kind = "Wheel" => e.delta[i] \in Int
    <3>1. i = 1 \/ i = 2
      OBVIOUS
    <3> QED
      BY <2>3, <3>1
  <2> QED
    BY <2>1, <2>4 DEF Steps
<1>3. PICK s : s = [n \in 1..Len(q) |-> Steps(q[n], i)]
  OBVIOUS
<1>4. s \in [1..Len(q) -> Int]
  BY <1>2, <1>3
<1>5. PICK g \in [0..Len(q) -> Int] :
        g = [n \in 0..Len(q) |-> IF n = 0 THEN 0 ELSE g[n - 1] + s[n]]
  BY <1>1, <1>4, SumsExist
<1>6. g = [n \in 0..Len(q) |-> IF n = 0 THEN 0 ELSE g[n - 1] + Steps(q[n], i)]
  <2>1. \A n \in 0..Len(q) : n # 0 => n \in 1..Len(q)
    BY <1>1
  <2>2. \A n \in 0..Len(q) : g[n] = IF n = 0 THEN 0 ELSE g[n - 1] + Steps(q[n], i)
    BY <1>3, <1>5, <2>1
  <2> QED
    BY <2>2
<1> DEFINE sum == CHOOSE f : f = [n \in 0..Len(q) |-> IF n = 0 THEN 0 ELSE f[n - 1] + Steps(q[n], i)]
<1>7. sum = [n \in 0..Len(q) |-> IF n = 0 THEN 0 ELSE sum[n - 1] + Steps(q[n], i)]
  BY <1>6
<1>8. UnderWay(q, i) = sum[Len(q)]
  BY DEF UnderWay
<1> HIDE DEF sum
<1>9. \A n \in 0..Len(q) : g[n] = sum[n]
  <2> DEFINE bad == { n \in 0..Len(q) : g[n] # sum[n] }
  <2>1. ASSUME bad # {}
        PROVE  FALSE
    <3>1. bad \in SUBSET Nat
      BY <1>1
    <3>2. PICK m \in bad : \A n \in bad : m <= n
      <4> HIDE DEF bad
      <4> QED
        BY <2>1, <3>1, Least
    <3>3. m \in 0..Len(q) /\ g[m] # sum[m]
      BY <3>2
    <3>4. m # 0
      BY <1>1, <1>6, <1>7, <3>3
    <3>5. m - 1 \in 0..Len(q) /\ m - 1 \notin bad
      BY <1>1, <3>2, <3>3, <3>4
    <3>6. g[m - 1] = sum[m - 1]
      BY <3>5
    <3>7. g[m] = g[m - 1] + Steps(q[m], i)
      BY <1>6, <3>3, <3>4
    <3>8. sum[m] = sum[m - 1] + Steps(q[m], i)
      BY <1>7, <3>3, <3>4
    <3> QED
      BY <3>3, <3>6, <3>7, <3>8
  <2> QED
    BY <2>1
<1>10. g[0] = 0 /\ \A n \in 1..Len(q) : g[n] = g[n - 1] + Steps(q[n], i)
  <2>1. \A n \in 1..Len(q) : n \in 0..Len(q) /\ n # 0
    BY <1>1
  <2>2. 0 \in 0..Len(q)
    BY <1>1
  <2> QED
    BY <1>6, <2>1, <2>2
<1>11. UnderWay(q, i) = g[Len(q)]
  BY <1>1, <1>8, <1>9
<1> QED
  BY <1>2, <1>10, <1>11

LEMMA SumOfJoined ==
  ASSUME NEW q \in Seq(Messages), NEW t \in Seq(Messages), NEW i \in 1..2
  PROVE  UnderWay(q \o t, i) = UnderWay(q, i) + UnderWay(t, i)
<1>0. PICK a \in Nat, b \in Nat : a = Len(q) /\ b = Len(t)
  BY LenProperties
<1>1. PICK j \in Seq(Messages) :
        /\ j = q \o t /\ a = Len(q) /\ b = Len(t) /\ Len(j) = a + b
        /\ \A n \in 1..a + b : j[n] = IF n <= a THEN q[n] ELSE t[n - a]
  <2>1. PICK j \in Seq(Messages) : j = q \o t
    BY ConcatProperties
  <2>2. /\ Len(q \o t) = Len(q) + Len(t)
        /\ \A n \in 1..Len(q) + Len(t) : (q \o t)[n] = IF n <= Len(q) THEN q[n] ELSE t[n - Len(q)]
    BY ConcatProperties
  <2>3. Len(j) = a + b /\ \A n \in 1..a + b : j[n] = IF n <= a THEN q[n] ELSE t[n - a]
    BY <1>0, <2>1, <2>2
  <2> QED
    BY <1>0, <2>1, <2>3
<1>2. PICK h \in [0..a + b -> Int] :
        /\ h[0] = 0 /\ \A n \in 1..a + b : h[n] = h[n - 1] + Steps(j[n], i)
        /\ UnderWay(j, i) = h[a + b]
  <2>1. \E h \in [0..Len(j) -> Int] :
          /\ h[0] = 0 /\ \A n \in 1..Len(j) : h[n] = h[n - 1] + Steps(j[n], i)
          /\ UnderWay(j, i) = h[Len(j)]
    BY Sums
  <2>2. Len(j) = a + b
    BY <1>1
  <2> QED
    BY <2>1, <2>2, Zenon
<1>3. PICK f \in [0..a -> Int] :
        /\ f[0] = 0 /\ \A n \in 1..a : f[n] = f[n - 1] + Steps(q[n], i)
        /\ UnderWay(q, i) = f[a]
  BY <1>1, Sums
<1>4. PICK g \in [0..b -> Int] :
        /\ g[0] = 0 /\ \A n \in 1..b : g[n] = g[n - 1] + Steps(t[n], i)
        /\ UnderWay(t, i) = g[b]
  BY <1>1, Sums
<1>5. \A n \in 1..a : Steps(q[n], i) \in Int
  BY <1>1, Sums
<1>6. \A n \in 1..b : Steps(t[n], i) \in Int
  BY <1>1, Sums
<1>7. \A n \in 0..a : h[n] = f[n]
  <2>1. PICK h1 \in [0..a -> Int] : \A n \in 0..a : h1[n] = h[n]
    <3>1. \A n \in 0..a : n \in 0..a + b
      OBVIOUS
    <3>2. [n \in 0..a |-> h[n]] \in [0..a -> Int]
      BY <3>1
    <3> QED
      BY <3>2
  <2>2. ASSUME NEW n \in 1..a
        PROVE  h1[n] - h1[n - 1] = f[n] - f[n - 1]
    <3>1. n \in 1..a + b /\ n <= a /\ n \in 0..a /\ n - 1 \in 0..a
      OBVIOUS
    <3>2. h1[n] = h1[n - 1] + Steps(q[n], i)
      BY <1>1, <1>2, <2>1, <3>1
    <3>3. f[n] = f[n - 1] + Steps(q[n], i)
      BY <1>3
    <3>4. PICK x \in Int, y \in Int, z \in Int : x = h1[n - 1] /\ y = f[n - 1] /\ z = Steps(q[n], i)
      BY <1>5, <3>1
    <3> QED
      BY <3>2, <3>3, <3>4
  <2>3. h1[0] = 0 /\ f[0] = 0
    <3>1. 0 \in 0..a
      OBVIOUS
    <3> QED
      BY <1>2, <1>3, <2>1, <3>1
  <2>4. \A n \in 0..a : h1[n] - h1[0] = f[n] - f[0]
    BY <2>2, Alike
  <2>5. \A n \in 0..a : h1[n] = f[n]
    BY <2>3, <2>4
  <2> QED
    BY <2>1, <2>5
<1>8. \A n \in 0..b : h[a + n] = g[n] + h[a]
  <2>1. PICK h2 \in [0..b -> Int] : \A n \in 0..b : h2[n] = h[a + n]
    <3>1. \A n \in 0..b : a + n \in 0..a + b
      OBVIOUS
    <3>2. [n \in 0..b |-> h[a + n]] \in [0..b -> Int]
      BY <3>1
    <3> QED
      BY <3>2
  <2>2. ASSUME NEW n \in 1..b
        PROVE  h2[n] - h2[n - 1] = g[n] - g[n - 1]
    <3>1. a + n \in 1..a + b /\ ~(a + n <= a) /\ a + n - a = n /\ a + n - 1 = a + (n - 1)
          /\ n \in 0..b /\ n - 1 \in 0..b
      OBVIOUS
    <3>5. j[a + n] = t[n]
      BY <1>1, <3>1
    <3>6. h[a + n] = h[a + n - 1] + Steps(j[a + n], i)
      BY <1>2, <3>1
    <3>7. h2[n] = h[a + n] /\ h2[n - 1] = h[a + n - 1]
      BY <2>1, <3>1
    <3>2. h2[n] = h2[n - 1] + Steps(t[n], i)
      BY <3>5, <3>6, <3>7
    <3>3. g[n] = g[n - 1] + Steps(t[n], i)
      BY <1>4
    <3>4. PICK x \in Int, y \in Int, z \in Int : x = h2[n - 1] /\ y = g[n - 1] /\ z = Steps(t[n], i)
      BY <1>6, <3>1
    <3> QED
      BY <3>2, <3>3, <3>4
  <2>3. h[a] \in Int /\ h2[0] = h[a] /\ g[0] = 0
    <3>1. 0 \in 0..b /\ a + 0 = a /\ a \in 0..a + b
      OBVIOUS
    <3> QED
      BY <1>4, <2>1, <3>1
  <2>4. \A n \in 0..b : h2[n] - h2[0] = g[n] - g[0]
    BY <2>2, Alike
  <2>5. ASSUME NEW n \in 0..b
        PROVE  h2[n] = g[n] + h[a]
    <3>1. h2[n] - h[a] = g[n] - 0
      BY <2>3, <2>4
    <3>2. h2[n] \in Int /\ g[n] \in Int
      BY <1>6, <2>1
    <3> QED
      BY <2>3, <3>1, <3>2
  <2> QED
    BY <2>1, <2>5
<1>9. h[a + b] = g[b] + f[a] /\ g[b] \in Int /\ f[a] \in Int
  <2>1. a \in 0..a /\ b \in 0..b
    OBVIOUS
  <2> QED
    BY <1>7, <1>8, <2>1
<1> QED
  BY <1>1, <1>2, <1>3, <1>4, <1>9

LEMMA SumIsInt ==
  ASSUME NEW q \in Seq(Messages), NEW i \in 1..2
  PROVE  UnderWay(q, i) \in Int
<1>1. PICK f \in [0..Len(q) -> Int] : UnderWay(q, i) = f[Len(q)]
  BY Sums
<1>2. Len(q) \in 0..Len(q)
  BY LenProperties
<1> QED
  BY <1>1, <1>2

LEMMA SumOfNone ==
  ASSUME NEW q \in Seq(Messages), NEW i \in 1..2, \A n \in 1..Len(q) : Steps(q[n], i) = 0
  PROVE  UnderWay(q, i) = 0
<1>1. PICK a \in Nat : a = Len(q)
  BY LenProperties
<1>2. PICK f \in [0..a -> Int] :
        /\ f[0] = 0 /\ \A n \in 1..a : f[n] = f[n - 1] + Steps(q[n], i)
        /\ UnderWay(q, i) = f[a]
  BY <1>1, Sums
<1>3. PICK z \in [0..a -> Int] : \A n \in 0..a : z[n] = 0
  <2>1. [n \in 0..a |-> 0] \in [0..a -> Int]
    OBVIOUS
  <2> QED
    BY <2>1
<1>4. ASSUME NEW n \in 1..a
      PROVE  f[n] - f[n - 1] = z[n] - z[n - 1]
  <2>1. n \in 0..a /\ n - 1 \in 0..a /\ f[n - 1] \in Int /\ f[n] = f[n - 1] + 0
    BY <1>1, <1>2
  <2> QED
    BY <1>3, <2>1
<1>5. \A n \in 0..a : f[n] - f[0] = z[n] - z[0]
  BY <1>4, Alike
<1>6. a \in 0..a /\ 0 \in 0..a
  OBVIOUS
<1>7. f[a] \in Int /\ f[a] - 0 = 0 - 0
  BY <1>2, <1>3, <1>5, <1>6
<1> QED
  BY <1>2, <1>7

LEMMA SumOfOne ==
  ASSUME NEW q \in Seq(Messages), Len(q) = 1, NEW i \in 1..2
  PROVE  UnderWay(q, i) = Steps(q[1], i) /\ Steps(q[1], i) \in Int
<1>1. PICK f \in [0..Len(q) -> Int] :
        /\ f[0] = 0 /\ \A n \in 1..Len(q) : f[n] = f[n - 1] + Steps(q[n], i)
        /\ UnderWay(q, i) = f[Len(q)]
  BY Sums
<1>2. 1 \in 1..Len(q) /\ Steps(q[1], i) \in Int
  <2>1. 1 \in 1..Len(q)
    OBVIOUS
  <2> QED
    BY <2>1, Sums
<1>3. UnderWay(q, i) = 0 + Steps(q[1], i)
  BY <1>1, <1>2
<1> QED
  BY <1>2, <1>3

LEMMA SumOfTail ==
  ASSUME NEW q \in Seq(Messages), q # <<>>, NEW i \in 1..2
  PROVE  UnderWay(q, i) = Steps(Head(q), i) + UnderWay(Tail(q), i)
<1>1. Head(q) \in Messages /\ Tail(q) \in Seq(Messages)
  BY HeadTailProperties
<1>2. PICK m \in Messages, t \in Seq(Messages) : m = Head(q) /\ t = Tail(q)
  BY <1>1
<1>3. <<m>> \in Seq(Messages) /\ Len(<<m>>) = 1 /\ <<m>>[1] = m
  OBVIOUS
<1>4. PICK o \in Seq(Messages) : Len(o) = 1 /\ o[1] = m
  BY <1>3
<1>5. q = o \o t
  <2>1. /\ o \o t \in Seq(Messages) /\ Len(o \o t) = Len(o) + Len(t)
        /\ \A n \in 1..Len(o) + Len(t) : (o \o t)[n] = IF n <= Len(o) THEN o[n] ELSE t[n - Len(o)]
    BY ConcatProperties
  <2>2. /\ Len(q) \in Nat /\ Len(q) # 0 /\ Len(t) = Len(q) - 1
        /\ \A n \in 1..Len(q) - 1 : t[n] = q[n + 1]
        /\ m = q[1]
    BY <1>2, EmptySeq, HeadTailProperties, LenProperties
  <2>3. Len(o \o t) = Len(q)
    BY <1>4, <2>1, <2>2
  <2>4. ASSUME NEW n \in 1..Len(q)
        PROVE  (o \o t)[n] = q[n]
    <3>1. n \in 1..Len(o) + Len(t)
      BY <1>4, <2>2
    <3>2. CASE n = 1
      BY <1>4, <2>1, <2>2, <3>1, <3>2
    <3>3. CASE n # 1
      <4>1. ~(n <= Len(o)) /\ n - Len(o) = n - 1 /\ n - 1 \in 1..Len(q) - 1 /\ n - 1 + 1 = n
        BY <1>4, <2>2, <3>3
      <4> QED
        BY <2>1, <2>2, <3>1, <4>1
    <3> QED
      BY <3>2, <3>3
  <2> QED
    BY <2>1, <2>3, <2>4, SeqEqual
<1>6. UnderWay(o \o t, i) = UnderWay(o, i) + UnderWay(t, i)
  BY SumOfJoined
<1>7. UnderWay(o, i) = Steps(m, i)
  BY <1>4, SumOfOne
<1> QED
  BY <1>2, <1>5, <1>6, <1>7

\* Keys and the pointer do not turn the wheel.
LEMMA SumOfStill ==
  ASSUME NEW rest \in Seq(Still), NEW held \in SUBSET Key, NEW i \in 1..2
  PROVE  /\ [k \in DOMAIN rest |-> Message(rest[k], held)] \in Seq(Messages)
         /\ UnderWay([k \in DOMAIN rest |-> Message(rest[k], held)], i) = 0
<1>1. /\ Len(rest) \in Nat /\ DOMAIN rest = 1..Len(rest)
      /\ \A k \in 1..Len(rest) : rest[k] \in Still
  BY LenProperties, ElementOfSeq
<1>2. PICK more : more = [k \in 1..Len(rest) |-> Message(rest[k], held)]
  OBVIOUS
<1>3. \A k \in 1..Len(rest) : more[k] \in Messages /\ more[k].event = rest[k]
  BY <1>1, <1>2 DEF Message, Messages, Still
<1>4. more \in [1..Len(rest) -> Messages]
  BY <1>2, <1>3
<1>5. more \in Seq(Messages)
  BY <1>1, <1>4, SeqDef
<1>6. Len(more) = Len(rest)
  BY <1>1, <1>4, <1>5, LenProperties
<1>7. \A k \in 1..Len(rest) : rest[k].kind # "Wheel"
  <2> TAKE k \in 1..Len(rest)
  <2>1. PICK e \in Still : e = rest[k]
    BY <1>1
  <2>2. e.kind # "Wheel"
    BY DEF Still, Event
  <2> QED
    BY <2>1, <2>2
<1>8. \A k \in 1..Len(more) : Steps(more[k], i) = 0
  BY <1>3, <1>6, <1>7 DEF Steps
<1>9. UnderWay(more, i) = 0
  BY <1>5, <1>8, SumOfNone
<1> QED
  BY <1>1, <1>2, <1>5, <1>9

\* A turn sends as much of the wheel as it takes from the remainder.
LEMMA SumOfSent ==
  ASSUME NEW r \in Int \X Int, NEW rest \in Seq(Still), NEW sent \in Seq(Event),
         sent = Wheels(r) \o rest, NEW held \in SUBSET Key, NEW i \in 1..2
  PROVE  UnderWay([k \in DOMAIN sent |-> Message(sent[k], held)], i) = take_wheel_delta(r[i])
<1>1. i = 1 \/ i = 2
  OBVIOUS
<1>2. /\ Wheel(r) \in Event /\ Wheel(r).kind = "Wheel"
      /\ Wheel(r).delta = <<take_wheel_delta(r[1]), take_wheel_delta(r[2])>>
  BY WheelFits DEF Event
<1>3. PICK x, y : x = take_wheel_delta(r[1]) /\ y = take_wheel_delta(r[2])
  OBVIOUS
<1>4. CASE Wheels(r) = <<>>
  <2>1. sent = rest
    BY <1>4, ConcatEmptySeq
  <2>2. take_wheel_delta(r[i]) = 0
    <3>1. Wheel(r).delta = <<0, 0>> \/ <<Wheel(r)>> = <<>>
      BY <1>4 DEF Wheels
    <3>2. PICK w : w = Wheel(r)
      OBVIOUS
    <3>3. <<w>> # <<>>
      OBVIOUS
    <3>4. <<x, y>> = <<0, 0>>
      BY <1>2, <1>3, <3>1, <3>2, <3>3
    <3>5. x = 0 /\ y = 0
      BY <3>4
    <3> QED
      BY <1>1, <1>3, <3>5
  <2> QED
    BY <2>1, <2>2, SumOfStill
<1>5. CASE Wheels(r) = <<Wheel(r)>>
  <2>1. PICK m \in Messages : m = Message(Wheel(r), held)
    BY <1>2 DEF Message, Messages
  <2>2. Steps(m, i) = take_wheel_delta(r[i])
    BY <1>1, <1>2, <2>1 DEF Message, Steps
  <2>3. PICK w \in Event : w = Wheel(r)
    BY <1>2
  <2>4. <<w>> \in Seq(Event) /\ Len(<<w>>) = 1 /\ <<w>>[1] = w
    OBVIOUS
  <2>5. PICK o \in Seq(Event) : o = <<w>> /\ Len(o) = 1 /\ o[1] = w
    BY <2>4
  <2>6. rest \in Seq(Event)
    <3>1. Still \subseteq Event
      BY DEF Still
    <3> QED
      BY <3>1, SeqMonotonic
  <2>7. /\ sent = o \o rest /\ Len(rest) \in Nat /\ Len(sent) = 1 + Len(rest)
        /\ \A k \in 1..1 + Len(rest) : sent[k] = IF k <= 1 THEN o[k] ELSE rest[k - 1]
    BY <1>5, <2>3, <2>5, <2>6, ConcatProperties, LenProperties
  <2>8. <<m>> \in Seq(Messages) /\ Len(<<m>>) = 1 /\ <<m>>[1] = m
    OBVIOUS
  <2>9. PICK first \in Seq(Messages) : Len(first) = 1 /\ first[1] = m
    BY <2>8
  <2>10. PICK others \in Seq(Messages) :
           others = [k \in DOMAIN rest |-> Message(rest[k], held)] /\ UnderWay(others, i) = 0
    BY SumOfStill
  <2>11. DOMAIN rest = 1..Len(rest) /\ DOMAIN sent = 1..Len(sent)
         /\ DOMAIN others = 1..Len(others) /\ Len(others) \in Nat
    BY LenProperties
  <2>12. Len(others) = Len(rest)
    BY <2>7, <2>10, <2>11
  <2>13. PICK all \in Seq(Messages) :
           all = first \o others /\ Len(all) = 1 + Len(rest)
           /\ \A k \in 1..1 + Len(rest) : all[k] = IF k <= 1 THEN first[k] ELSE others[k - 1]
    <3>1. PICK all \in Seq(Messages) : all = first \o others
      BY ConcatProperties
    <3>2. /\ Len(first \o others) = Len(first) + Len(others)
          /\ \A k \in 1..Len(first) + Len(others) :
               (first \o others)[k] = IF k <= Len(first) THEN first[k] ELSE others[k - Len(first)]
      BY ConcatProperties
    <3> QED
      BY <2>9, <2>12, <3>1, <3>2
  <2>14. [k \in DOMAIN sent |-> Message(sent[k], held)] = all
    <3>1. ASSUME NEW k \in 1..1 + Len(rest)
          PROVE  all[k] = Message(sent[k], held)
      <4>1. CASE k = 1
        <5>1. k <= 1
          BY <4>1
        <5>2. all[k] = first[k] /\ sent[k] = o[k]
          BY <2>7, <2>13, <5>1
        <5>3. all[k] = m /\ sent[k] = w
          BY <2>5, <2>9, <4>1, <5>2
        <5> QED
          BY <2>1, <2>3, <5>3
      <4>2. CASE k # 1
        <5>1. ~(k <= 1) /\ k - 1 \in 1..Len(rest)
          BY <2>7, <4>2
        <5>2. all[k] = others[k - 1] /\ sent[k] = rest[k - 1]
          BY <2>7, <2>13, <5>1
        <5>3. others[k - 1] = Message(rest[k - 1], held)
          BY <2>10, <2>11, <5>1
        <5> QED
          BY <5>2, <5>3
      <4> QED
        BY <4>1, <4>2
    <3>2. DOMAIN all = 1..1 + Len(rest)
      BY <2>13, LenProperties
    <3>3. all \in [1..1 + Len(rest) -> Messages]
      BY <2>13, LenProperties
    <3>4. DOMAIN sent = 1..1 + Len(rest)
      BY <2>7, <2>11
    <3>5. [k \in DOMAIN sent |-> Message(sent[k], held)] = [k \in 1..1 + Len(rest) |-> all[k]]
      BY <3>1, <3>4
    <3> QED
      BY <3>3, <3>5
  <2>15. UnderWay(all, i) = UnderWay(first, i) + UnderWay(others, i)
    BY <2>13, SumOfJoined
  <2>16. UnderWay(first, i) = Steps(m, i) /\ Steps(m, i) \in Int
    BY <2>9, SumOfOne
  <2>17. UnderWay(all, i) = Steps(m, i)
    BY <2>10, <2>15, <2>16
  <2> QED
    BY <2>2, <2>14, <2>17
<1> QED
  BY <1>4, <1>5 DEF Wheels

LEMMA Balance ==
  ASSUME NEW F \in Int, NEW t \in Int, NEW u \in Int, NEW d \in Int,
         NEW a \in Int, NEW b \in Int, NEW c \in Int, NEW s \in Int,
         F * (t + u) + a = s, F * d + b = a + c
  PROVE  F * (t + (u + d)) + b = s + c
<1>1. PICK p \in Int, q \in Int : p = F * (t + u) /\ q = F * d
  OBVIOUS
<1>2. F * (t + (u + d)) = p + q
  BY <1>1
<1>3. p + a = s /\ q + b = a + c
  BY <1>1
<1> QED
  BY <1>2, <1>3

LEMMA WheelTurn ==
  ASSUME Typed, DrainedWheelIsConserved, NEW scroll \in Int \X Int, NEW repeats, Turn(scroll, repeats)
  PROVE  DrainedWheelIsConserved'
<1>1. UNCHANGED <<link, injector, turned>>
  BY DEF Turn, hostVars
<1>2. CASE desktop_size = None
  <2>1. UNCHANGED <<stream, scroll_remainder, scrolled>>
    BY <1>2 DEF Turn, history
  <2> QED
    BY <1>1, <2>1 DEF DrainedWheelIsConserved
<1>3. CASE desktop_size # None
  <2>1. PICK rest \in Seq(Still), sent \in Seq(Event) :
          LET remainder == Plus(scroll_remainder, scroll) IN
          /\ sent = Wheels(remainder) \o rest
          /\ stream' = stream \o [k \in DOMAIN sent |-> Message(sent[k], reported')]
          /\ scroll_remainder' = <<Remainder(remainder[1]), Remainder(remainder[2])>>
          /\ scrolled' = Plus(scrolled, scroll)
          /\ reported' \subseteq Key
    BY <1>3, TurnDoes
  <2>2. /\ scroll_remainder \in Int \X Int /\ scrolled \in Int \X Int /\ turned \in Int \X Int
        /\ stream \in Seq(Messages)
    BY DEF Typed
  <2>3. PICK r \in Int \X Int :
          /\ r = Plus(scroll_remainder, scroll)
          /\ \A i \in 1..2 : r[i] = scroll_remainder[i] + scroll[i]
    BY <2>2, Added
  <2>4. PICK held \in SUBSET Key : held = reported'
    BY <2>1
  <2>5. PICK more \in Seq(Messages) : more = [k \in DOMAIN sent |-> Message(sent[k], held)]
    BY <2>2, Posted
  <2>6. \A i \in 1..2 : UnderWay(more, i) = take_wheel_delta(r[i])
    BY <2>1, <2>3, <2>5, SumOfSent
  <2>7. stream' = stream \o more
    BY <2>1, <2>4, <2>5
  <2>8. \A i \in 1..2 : UnderWay(stream \o more, i) = UnderWay(stream, i) + UnderWay(more, i)
    BY <2>2, SumOfJoined
  <2>9. scroll_remainder' = <<Remainder(r[1]), Remainder(r[2])>> /\ scrolled' = Plus(scrolled, scroll)
    BY <2>1, <2>3
  <2> SUFFICES ASSUME NEW i \in 1..2, injector # None, link
               PROVE  Fraction * (turned[i] + UnderWay(stream', i)) + scroll_remainder'[i] = scrolled'[i]
    BY <1>1 DEF DrainedWheelIsConserved
  <2>10. i = 1 \/ i = 2
    OBVIOUS
  <2>11. scroll_remainder'[i] = Remainder(r[i]) /\ scrolled'[i] = scrolled[i] + scroll[i]
    <3>1. scroll_remainder'[i] = Remainder(r[i])
      <4>1. PICK u, v : u = Remainder(r[1]) /\ v = Remainder(r[2])
        OBVIOUS
      <4>2. scroll_remainder' = <<u, v>>
        BY <2>9, <4>1
      <4> QED
        BY <2>10, <4>1, <4>2
    <3>2. scrolled'[i] = scrolled[i] + scroll[i]
      <4>1. /\ Plus(scrolled, scroll)[1] = scrolled[1] + scroll[1]
            /\ Plus(scrolled, scroll)[2] = scrolled[2] + scroll[2]
        BY <2>2, Added
      <4> QED
        BY <2>9, <2>10, <4>1
    <3> QED
      BY <3>1, <3>2
  <2>12. turned[i] \in Int /\ scroll_remainder[i] \in Int /\ scrolled[i] \in Int /\ scroll[i] \in Int /\ r[i] \in Int
    BY <2>2, <2>10
  <2>13. /\ UnderWay(stream, i) \in Int /\ take_wheel_delta(r[i]) \in Int /\ Remainder(r[i]) \in Int
         /\ Fraction \in Int
    <3>1. UnderWay(stream, i) \in Int
      BY <2>2, SumIsInt
    <3>2. take_wheel_delta(r[i]) \in Int /\ Remainder(r[i]) \in Int
      BY <2>12, Taken
    <3>3. Fraction \in Int
      BY InputAssumption
    <3> QED
      BY <3>1, <3>2, <3>3
  <2>14. Fraction * (turned[i] + UnderWay(stream, i)) + scroll_remainder[i] = scrolled[i]
    BY DEF DrainedWheelIsConserved
  <2>15. Fraction * take_wheel_delta(r[i]) + Remainder(r[i]) = scroll_remainder[i] + scroll[i]
    BY <2>3, <2>12, Taken
  <2>16. Fraction * (turned[i] + (UnderWay(stream, i) + take_wheel_delta(r[i]))) + Remainder(r[i])
         = scrolled[i] + scroll[i]
    <3>1. PICK F \in Int, t \in Int, u \in Int, d \in Int :
            F = Fraction /\ t = turned[i] /\ u = UnderWay(stream, i) /\ d = take_wheel_delta(r[i])
      BY <2>12, <2>13
    <3>2. PICK a \in Int, b \in Int, c \in Int, all \in Int :
            a = scroll_remainder[i] /\ b = Remainder(r[i]) /\ c = scroll[i] /\ all = scrolled[i]
      BY <2>12, <2>13
    <3>3. F * (t + u) + a = all /\ F * d + b = a + c
      BY <2>14, <2>15, <3>1, <3>2
    <3>4. F * (t + (u + d)) + b = all + c
      BY <3>3, Balance
    <3> QED
      BY <3>1, <3>2, <3>4
  <2>17. UnderWay(stream', i) = UnderWay(stream, i) + take_wheel_delta(r[i])
    BY <2>6, <2>7, <2>8
  <2> QED
    BY <2>11, <2>16, <2>17
<1> QED
  BY <1>2, <1>3

\* What an event does to the wheel.
LEMMA TurnedByEvent ==
  ASSUME injector \in Injector, NEW m \in Messages, m.event \in Event, validate_input(m.event, Screen), NEW i \in 1..2
  PROVE  Turned(Calls(m.event))[i] = Steps(m, i)
<1>1. PICK e \in Event : e = m.event
  OBVIOUS
<1>2. i = 1 \/ i = 2
  OBVIOUS
<1>3. CASE e.kind = "Wheel"
  <2>1. Turned(Calls(e)) = <<e.delta[1], e.delta[2]>>
    BY <1>3, Kinds, WheelCalls
  <2> QED
    BY <1>1, <1>2, <1>3, <2>1 DEF Steps
<1>4. CASE e.kind # "Wheel"
  <2>1. What(Calls(e), "hwheel") = {} /\ What(Calls(e), "wheel") = {}
    <3>1. CASE e.kind = "Pointer"
      <4>1. e.at \in Inside(Screen) /\ e.buttons \subseteq Button /\ injector.buttons \subseteq Button
        BY <1>1, <3>1, Kinds DEF validate_input, Injector
      <4> QED
        BY <3>1, <4>1, PointerCalls
    <3>2. CASE e.kind = "Key"
      BY <3>2, Kinds, KeyCalls
    <3> QED
      BY <1>4, <3>1, <3>2, Kinds
  <2>2. Turned(Calls(e)) = <<0, 0>>
    BY <2>1 DEF Turned, Only
  <2> QED
    BY <1>1, <1>2, <1>4, <2>2 DEF Steps
<1> QED
  BY <1>3, <1>4

LEMMA WheelInject ==
  ASSUME Typed, DrainedWheelIsConserved, NEW done \in 0..5, HostInjects(done)
  PROVE  DrainedWheelIsConserved'
<1>1. PICK event \in Event :
        /\ event = Head(stream).event /\ injector \in Injector
        /\ stream # <<>> /\ stream' = Tail(stream)
        /\ UNCHANGED <<viewerVars, scrolled>>
        /\ \/ link' = FALSE
           \/ /\ validate_input(event, Screen) /\ turned' = Plus(turned, Turned(Calls(event)))
              /\ link' = link
  BY Injected
<1>2. CASE link' = FALSE
  BY <1>2 DEF DrainedWheelIsConserved
<1>3. CASE /\ validate_input(event, Screen) /\ turned' = Plus(turned, Turned(Calls(event)))
           /\ link' = link
  <2> SUFFICES ASSUME NEW i \in 1..2, link
               PROVE  Fraction * (turned'[i] + UnderWay(stream', i)) + scroll_remainder'[i] = scrolled'[i]
    BY <1>3 DEF DrainedWheelIsConserved
  <2>1. stream \in Seq(Messages) /\ turned \in Int \X Int
    BY DEF Typed
  <2>2. PICK m \in Messages : m = Head(stream) /\ m.event = event
    BY <1>1, <2>1, HeadTailProperties
  <2>3. UnderWay(stream, i) = Steps(m, i) + UnderWay(stream', i)
    BY <1>1, <2>1, <2>2, SumOfTail
  <2>4. Turned(Calls(event))[i] = Steps(m, i)
    BY <1>1, <1>3, <2>2, TurnedByEvent
  <2>5. Turned(Calls(event)) \in Int \X Int
    BY <1>1, <1>3, CallsFit, TurnedFits
  <2>6. turned'[i] = turned[i] + Steps(m, i)
    BY <1>3, <2>1, <2>4, <2>5, Added
  <2>7. UnderWay(stream', i) \in Int /\ Steps(m, i) \in Int /\ turned[i] \in Int
    <3>1. stream' \in Seq(Messages)
      BY <1>1, <2>1, HeadTailProperties
    <3>2. UnderWay(stream', i) \in Int
      BY <3>1, SumIsInt
    <3>3. i = 1 \/ i = 2
      OBVIOUS
    <3> QED
      BY <2>1, <2>4, <2>5, <3>2, <3>3
  <2>8. turned'[i] + UnderWay(stream', i) = turned[i] + UnderWay(stream, i)
    BY <2>3, <2>6, <2>7
  <2>9. Fraction * (turned[i] + UnderWay(stream, i)) + scroll_remainder[i] = scrolled[i]
    BY <1>1, NotNone DEF DrainedWheelIsConserved
  <2> QED
    BY <1>1, <2>8, <2>9 DEF viewerVars
<1> QED
  BY <1>1, <1>2, <1>3

LEMMA WheelStep ==
  ASSUME Typed, DrainedWheelIsConserved, [Next]_vars
  PROVE  DrainedWheelIsConserved'
<1>1. CASE UNCHANGED <<injector, link, turned, stream, scroll_remainder, scrolled>>
  BY <1>1 DEF DrainedWheelIsConserved
<1>2. UserMoves \/ UserClicks \/ UserTypes \/ UserResizes
      => UNCHANGED <<injector, link, turned, stream, scroll_remainder, scrolled>>
  BY DEF UserMoves, UserClicks, UserTypes, UserResizes, Acts, viewerVars, hostVars, history
<1>3. Presents \/ UNCHANGED vars
      => UNCHANGED <<injector, link, turned, stream, scroll_remainder, scrolled>>
  BY DEF Presents, vars, viewerVars, hostVars, history
<1>4. HostStops \/ HostFails => DrainedWheelIsConserved'
  BY DEF HostStops, HostFails, Ends, DrainedWheelIsConserved
<1>5. LinkBreaks => DrainedWheelIsConserved'
  BY DEF LinkBreaks, DrainedWheelIsConserved
<1>6. CASE UserScrolls
  <2>1. PICK scroll \in Scrolls : Turn(scroll, {})
    BY <1>6 DEF UserScrolls
  <2> QED
    BY <2>1, WheelTurn, InputAssumption
<1>7. ASSUME NEW repeats, ViewerTurns(repeats)
      PROVE  DrainedWheelIsConserved'
  <2>1. Turn(<<0, 0>>, repeats) /\ <<0, 0>> \in Int \X Int
    BY <1>7 DEF ViewerTurns
  <2> QED
    BY <2>1, WheelTurn
<1>8. ASSUME NEW decodes, FirstKeyframe(decodes)
      PROVE  UNCHANGED <<injector, link, turned, stream, scroll_remainder, scrolled>>
  BY <1>8 DEF FirstKeyframe, hostVars, history
<1>9. CASE ViewerCloses
  <2>0. PICK c : c = Message([kind |-> "Close"], reported)
    OBVIOUS
  <2>a. c \in Messages /\ c.event.kind = "Close"
    BY <2>0 DEF Message, Messages, Typed
  <2>1. PICK m \in Messages : m = Message([kind |-> "Close"], reported) /\ m.event.kind = "Close"
    BY <2>0, <2>a
  <2>2. stream \in Seq(Messages) /\ stream' = Append(stream, m)
        /\ UNCHANGED <<injector, link, turned, scroll_remainder, scrolled>>
    BY <1>9, <2>1 DEF ViewerCloses, Typed, hostVars, history
  <2>3. <<m>> \in Seq(Messages) /\ Len(<<m>>) = 1 /\ <<m>>[1] = m
    OBVIOUS
  <2>4. PICK o \in Seq(Messages) : o = <<m>> /\ Len(o) = 1 /\ o[1] = m
    BY <2>3
  <2>5. stream' = stream \o o
    BY <2>2, <2>4, AppendIsConcat
  <2>6. \A i \in 1..2 : UnderWay(o, i) = 0
    BY <2>1, <2>4, SumOfOne DEF Steps
  <2>7. \A i \in 1..2 : UnderWay(stream', i) = UnderWay(stream, i) /\ UnderWay(stream, i) \in Int
    <3> TAKE i \in 1..2
    <3>1. UnderWay(stream, i) \in Int
      BY <2>2, SumIsInt
    <3>2. UnderWay(stream', i) = UnderWay(stream, i) + UnderWay(o, i)
      BY <2>2, <2>5, SumOfJoined
    <3> QED
      BY <2>6, <3>1, <3>2
  <2> QED
    BY <2>2, <2>7 DEF DrainedWheelIsConserved
<1>10. ASSUME NEW done \in 0..5, HostInjects(done)
       PROVE  DrainedWheelIsConserved'
  BY <1>10, WheelInject
<1> QED
  BY <1>1, <1>2, <1>3, <1>4, <1>5, <1>6, <1>7, <1>8, <1>9, <1>10 DEF Next

\* Between the viewer's drains and the host no turn of the wheel is lost and none is made
\* up: what the host has turned, what is under way and the remainder are what the drains
\* have seen the user scroll, however far and fast.  What the window saw while a picture
\* was shown is not drained (Presents).
THEOREM DrainedWheelConserved == Spec => []DrainedWheelIsConserved
<1>1. Init => DrainedWheelIsConserved
  <2> SUFFICES ASSUME Init, NEW i \in 1..2
               PROVE  Fraction * (turned[i] + UnderWay(stream, i)) + scroll_remainder[i] = scrolled[i]
    BY DEF DrainedWheelIsConserved
  <2>1. stream = <<>> /\ turned = <<0, 0>> /\ scroll_remainder = <<0, 0>> /\ scrolled = <<0, 0>>
    BY DEF Init
  <2>2. stream \in Seq(Messages) /\ Len(stream) = 0
    BY <2>1
  <2>5. \A n \in 1..Len(stream) : Steps(stream[n], i) = 0
    BY <2>2
  <2>3. UnderWay(stream, i) = 0
    BY <2>2, <2>5, SumOfNone
  <2>4. turned[i] = 0 /\ scroll_remainder[i] = 0 /\ scrolled[i] = 0
    BY <2>1
  <2> QED
    BY <2>3, <2>4, InputAssumption
<1>2. Typed /\ DrainedWheelIsConserved /\ [Next]_vars => DrainedWheelIsConserved'
  BY WheelStep
<1> QED
  BY <1>1, <1>2, TypedInvariant, PTL DEF Spec

-----------------------------------------------------------------------------
\* What is under way leads from the keys the injector remembers to those the viewer
\* has seen held.
Stacked ==
  injector # None =>
    \E y : /\ Path(stream, Range(injector.pressed_keys), y)
           /\ viewer = "open" /\ link => y = reported

LEMMA PathOfTail ==
  ASSUME NEW q \in Seq(Messages), q # <<>>, NEW x, NEW y, Path(q, x, y)
  PROVE  /\ Path(Tail(q), KeysAfter(x, Head(q).event), y)
         /\ Head(q).event.kind = "Pointer" => Head(q).held = x
<1>1. /\ Len(q) \in Nat /\ Len(q) # 0 /\ Head(q) = q[1] /\ Tail(q) \in Seq(Messages)
      /\ Len(Tail(q)) = Len(q) - 1 /\ \A n \in 1..Len(q) - 1 : Tail(q)[n] = q[n + 1]
  BY EmptySeq, HeadTailProperties, LenProperties
<1>2. PICK a \in Nat : a = Len(q) - 1 /\ Len(q) = a + 1
  <2>1. \A l \in Nat : l # 0 => \E n \in Nat : n = l - 1 /\ l = n + 1
    <3> TAKE l \in Nat
    <3>1. l # 0 => l - 1 \in Nat /\ l = l - 1 + 1
      OBVIOUS
    <3> QED
      BY <3>1
  <2> QED
    BY <1>1, <2>1
<1>3. PICK K : Leads(q, K) /\ K[0] = x /\ K[a + 1] = y
  BY <1>2 DEF Path
<1>4. PICK t \in Seq(Messages) : t = Tail(q) /\ Len(t) = a /\ \A n \in 1..a : t[n] = q[n + 1]
  BY <1>1, <1>2
<1>5. PICK L : L = [n \in 0..a |-> K[n + 1]]
  OBVIOUS
<1>6. /\ K \in [0..a + 1 -> SUBSET Key]
      /\ \A n \in 1..a + 1 : K[n] = KeysAfter(K[n - 1], q[n].event)
                             /\ (q[n].event.kind = "Pointer" => q[n].held = K[n - 1])
  BY <1>2, <1>3 DEF Leads
<1>7. L \in [0..a -> SUBSET Key]
  <2>1. \A n \in 0..a : n + 1 \in 0..a + 1
    OBVIOUS
  <2> QED
    BY <1>5, <1>6, <2>1
<1>8. ASSUME NEW n \in 1..a
      PROVE  L[n] = KeysAfter(L[n - 1], t[n].event)
             /\ (t[n].event.kind = "Pointer" => t[n].held = L[n - 1])
  <2>1. n \in 0..a /\ n - 1 \in 0..a /\ n - 1 + 1 = n /\ n + 1 \in 1..a + 1 /\ n + 1 - 1 = n
    OBVIOUS
  <2>2. L[n] = K[n + 1] /\ L[n - 1] = K[n] /\ t[n] = q[n + 1]
    BY <1>4, <1>5, <2>1
  <2> QED
    BY <1>6, <2>1, <2>2
<1>9. Leads(t, L)
  BY <1>4, <1>7, <1>8 DEF Leads
<1>10. L[0] = K[1] /\ L[a] = y
  <2>1. 0 \in 0..a /\ a \in 0..a /\ 0 + 1 = 1
    OBVIOUS
  <2> QED
    BY <1>3, <1>5, <2>1
<1>11. K[1] = KeysAfter(x, q[1].event) /\ (q[1].event.kind = "Pointer" => q[1].held = x)
  <2>1. 1 \in 1..a + 1 /\ 1 - 1 = 0
    OBVIOUS
  <2> QED
    BY <1>3, <1>6, <2>1
<1> QED
  BY <1>1, <1>4, <1>9, <1>10, <1>11 DEF Path

LEMMA PathOfFirst ==
  ASSUME NEW q \in Seq(Messages), NEW x, NEW y, Path(q, x, y), NEW m \in 0..Len(q)
  PROVE  \E z : Path(SubSeq(q, 1, m), x, z)
<1>1. PICK a \in Nat : a = Len(q)
  BY LenProperties
<1>2. PICK K : Leads(q, K) /\ K[0] = x
  BY DEF Path
<1>3. /\ K \in [0..a -> SUBSET Key]
      /\ \A n \in 1..a : K[n] = KeysAfter(K[n - 1], q[n].event)
                         /\ (q[n].event.kind = "Pointer" => q[n].held = K[n - 1])
  BY <1>1, <1>2 DEF Leads
<1>4. m \in Nat /\ m <= a /\ m \in Int /\ 1 \in Int /\ \A n \in 1..m : n \in 1..a
  BY <1>1
<1>5. \A n \in 1..m : q[n] \in Messages
  BY <1>1, <1>4, ElementOfSeq
<1>6. PICK t : t = SubSeq(q, 1, m) /\ Len(t) = m /\ \A n \in 1..m : t[n] = q[n]
  <2>1. Len(SubSeq(q, 1, m)) = m /\ \A n \in 1..m : SubSeq(q, 1, m)[n] = q[n]
    BY <1>4, <1>5, SubSeqProperties
  <2> QED
    BY <2>1
<1>7. PICK L : L = [n \in 0..m |-> K[n]]
  OBVIOUS
<1>8. L \in [0..m -> SUBSET Key]
  <2>1. \A n \in 0..m : n \in 0..a
    BY <1>4
  <2> QED
    BY <1>3, <1>7, <2>1
<1>9. ASSUME NEW n \in 1..m
      PROVE  L[n] = KeysAfter(L[n - 1], t[n].event)
             /\ (t[n].event.kind = "Pointer" => t[n].held = L[n - 1])
  <2>1. n \in 0..m /\ n - 1 \in 0..m /\ n \in 1..a
    BY <1>4
  <2>2. L[n] = K[n] /\ L[n - 1] = K[n - 1] /\ t[n] = q[n]
    BY <1>6, <1>7, <2>1
  <2> QED
    BY <1>3, <2>1, <2>2
<1>10. Leads(t, L)
  BY <1>6, <1>8, <1>9 DEF Leads
<1>11. L[0] = x
  <2>1. 0 \in 0..m
    BY <1>4
  <2> QED
    BY <1>2, <1>7, <2>1
<1>12. Path(t, x, L[Len(t)])
  BY <1>10, <1>11 DEF Path
<1> QED
  BY <1>6, <1>12

LEMMA StackedTurn ==
  ASSUME Typed, Stacked, NEW scroll \in Int \X Int, NEW repeats, Turn(scroll, repeats)
  PROVE  Stacked'
<1>1. UNCHANGED <<link, injector>> /\ viewer = "open" /\ link
  BY DEF Turn, hostVars
<1>2. CASE desktop_size = None
  <2>1. UNCHANGED <<stream, reported>>
    BY <1>2 DEF Turn, history
  <2> QED
    BY <1>1, <2>1 DEF Stacked
<1>3. CASE desktop_size # None
  <2> SUFFICES ASSUME injector # None
               PROVE  \E y : /\ Path(stream', Range(injector.pressed_keys), y)
                             /\ viewer' = "open" /\ link' => y = reported'
    BY <1>1 DEF Stacked
  <2>1. Path(stream, Range(injector.pressed_keys), reported)
    BY <1>1 DEF Stacked
  <2>2. PICK sent \in Seq(Event) :
          /\ stream' = stream \o [k \in DOMAIN sent |-> Message(sent[k], reported')]
          /\ Path(Post(sent, reported'), reported, reported') /\ reported' \subseteq Key
    BY <1>3, TurnDoes
  <2>3. PICK held \in SUBSET Key : held = reported'
    BY <2>2
  <2>4. PICK more \in Seq(Messages) : more = Post(sent, held)
    BY PostProperties
  <2>5. stream' = stream \o more /\ stream \in Seq(Messages)
    BY <2>2, <2>3, <2>4 DEF Post, Typed
  <2>6. Path(more, reported, held)
    BY <2>2, <2>3, <2>4
  <2>7. Path(stream \o more, Range(injector.pressed_keys), held)
    BY <2>1, <2>5, <2>6, PathJoined
  <2> QED
    BY <2>3, <2>5, <2>7
<1> QED
  BY <1>2, <1>3

LEMMA StackedInject ==
  ASSUME Typed, Stacked, NEW done \in 0..5, HostInjects(done)
  PROVE  Stacked'
<1> SUFFICES ASSUME injector' # None
             PROVE  Stacked'
  BY DEF Stacked
<1>1. PICK event \in Event :
        /\ event = Head(stream).event /\ injector \in Injector /\ IsInjective(injector.pressed_keys)
        /\ stream # <<>> /\ stream' = Tail(stream)
        /\ UNCHANGED <<viewerVars, reported>>
        /\ \/ injector' = None
           \/ injector' = Recorded(event) /\ link' = link
  BY Injected DEF Dropped
<1>2. Range(Recorded(event).pressed_keys) = KeysAfter(Range(injector.pressed_keys), event)
  BY <1>1, Records DEF KeysAfter
<1>3. stream \in Seq(Messages) /\ injector # None
  BY <1>1, NotNone DEF Typed
<1>4. PICK y : /\ Path(stream, Range(injector.pressed_keys), y)
               /\ viewer = "open" /\ link => y = reported
  BY <1>3 DEF Stacked
<1>5. Path(Tail(stream), KeysAfter(Range(injector.pressed_keys), event), y)
  BY <1>1, <1>3, <1>4, PathOfTail
<1>6. Path(stream', Range(injector'.pressed_keys), y)
  BY <1>1, <1>2, <1>5
<1> QED
  BY <1>1, <1>4, <1>6 DEF Stacked, viewerVars

LEMMA StackedStep ==
  ASSUME Typed, Stacked, [Next]_vars
  PROVE  Stacked'
<1>1. CASE UNCHANGED <<injector, link, stream, viewer, reported>>
  BY <1>1 DEF Stacked
<1>2. UserMoves \/ UserClicks \/ UserTypes \/ UserResizes
      => UNCHANGED <<injector, link, stream, viewer, reported>>
  BY DEF UserMoves, UserClicks, UserTypes, UserResizes, Acts, viewerVars, hostVars, history
<1>3. Presents \/ UNCHANGED vars => UNCHANGED <<injector, link, stream, viewer, reported>>
  BY DEF Presents, vars, viewerVars, hostVars, history
<1>4. HostStops \/ HostFails => Stacked'
  BY DEF HostStops, HostFails, Ends, HostLets, Dropped, Stacked
<1>5. CASE LinkBreaks
  <2>1. PICK n \in 0..Len(stream) : stream' = SubSeq(stream, 1, n)
    BY <1>5 DEF LinkBreaks
  <2>2. stream \in Seq(Messages) /\ link' = FALSE /\ injector' = injector
    BY <1>5 DEF LinkBreaks, hostVars, Typed
  <2>3. injector # None => \E y : Path(stream, Range(injector.pressed_keys), y)
    BY DEF Stacked
  <2>4. injector # None => \E z : Path(stream', Range(injector.pressed_keys), z)
    BY <2>1, <2>2, <2>3, PathOfFirst
  <2> QED
    BY <2>2, <2>4 DEF Stacked
<1>6. CASE UserScrolls
  <2>1. PICK scroll \in Scrolls : Turn(scroll, {})
    BY <1>6 DEF UserScrolls
  <2> QED
    BY <2>1, StackedTurn, InputAssumption
<1>7. ASSUME NEW repeats, ViewerTurns(repeats)
      PROVE  Stacked'
  <2>1. Turn(<<0, 0>>, repeats) /\ <<0, 0>> \in Int \X Int
    BY <1>7 DEF ViewerTurns
  <2> QED
    BY <2>1, StackedTurn
<1>8. ASSUME NEW decodes, FirstKeyframe(decodes)
      PROVE  UNCHANGED <<injector, link, stream, viewer, reported>>
  BY <1>8 DEF FirstKeyframe, hostVars, history
<1>9. CASE ViewerCloses
  <2>1. PICK c : c = Message([kind |-> "Close"], reported)
    OBVIOUS
  <2>2. c \in Messages /\ c.event.kind = "Close"
    BY <2>1 DEF Message, Messages, Typed
  <2>3. stream \in Seq(Messages) /\ stream' = Append(stream, c) /\ viewer' = "over" /\ injector' = injector
    BY <1>9, <2>1 DEF ViewerCloses, Typed, hostVars
  <2>4. <<c>> \in Seq(Messages) /\ Len(<<c>>) = 1 /\ <<c>>[1] = c
    BY <2>2
  <2>5. PICK o \in Seq(Messages) : o = <<c>> /\ Len(o) = 1 /\ o[1] = c
    BY <2>4
  <2>6. stream' = stream \o o
    BY <2>2, <2>3, <2>5, AppendIsConcat
  <2>7. ASSUME injector # None
        PROVE  \E y : Path(stream', Range(injector.pressed_keys), y)
    <3>1. PICK y : Path(stream, Range(injector.pressed_keys), y)
      BY <2>7 DEF Stacked
    <3>2. y \in SUBSET Key
      <4>1. PICK K : Leads(stream, K) /\ K[Len(stream)] = y
        BY <3>1 DEF Path
      <4>2. Len(stream) \in 0..Len(stream)
        BY <2>3, LenProperties
      <4> QED
        BY <4>1, <4>2 DEF Leads
    <3>3. \A n \in 1..Len(o) : o[n].event.kind # "Key" /\ (o[n].event.kind = "Pointer" => o[n].held = y)
      BY <2>2, <2>5
    <3>4. Path(o, y, y)
      BY <3>2, <3>3, PathStays
    <3>5. Path(stream \o o, Range(injector.pressed_keys), y)
      BY <2>3, <3>1, <3>4, PathJoined
    <3> QED
      BY <2>6, <3>5
  <2> QED
    BY <2>3, <2>7 DEF Stacked
<1>10. ASSUME NEW done \in 0..5, HostInjects(done)
       PROVE  Stacked'
  BY <1>10, StackedInject
<1> QED
  BY <1>1, <1>2, <1>3, <1>4, <1>5, <1>6, <1>7, <1>8, <1>9, <1>10 DEF Next

\* When a click is injected the host holds exactly the keys the viewer saw held in the
\* turn in which it saw the click, however many turns are under way between them: the
\* events of a turn keep their order, and the pointer follows the keys.
THEOREM ClickWithModifiers == Spec => ClickHasItsModifiers
<1> DEFINE A == \A done \in 0..5 :
                  HostInjects(done) /\ Head(stream).event.kind = "Pointer"
                  /\ host'.buttons # host.buttons /\ injector' # None
                  => host'.keys = { windows_key_mapping[k] : k \in Head(stream).held }
<1>1. Init => Stacked
  <2> SUFFICES ASSUME Init
               PROVE  Stacked
    OBVIOUS
  <2>1. stream \in Seq(Messages) /\ Len(stream) = 0 /\ injector.pressed_keys = <<>> /\ reported = {}
    BY DEF Init
  <2>2. Range(injector.pressed_keys) = {}
    BY <2>1 DEF Range
  <2>3. Path(stream, {}, {})
    <3>1. {} \in SUBSET Key /\ 1..Len(stream) = {}
      BY <2>1
    <3> QED
      BY <2>1, <3>1, PathStays
  <2> QED
    BY <2>1, <2>2, <2>3 DEF Stacked
<1>2. Typed /\ Stacked /\ [Next]_vars => Stacked'
  BY StackedStep
<1>3. Typed /\ HoldsKeys /\ [Next]_vars => HoldsKeys'
  BY KeysStep
<1>4. Typed /\ HoldsKeys /\ HoldsKeys' /\ Stacked => A
  <2> SUFFICES ASSUME Typed, HoldsKeys, HoldsKeys', Stacked, NEW done \in 0..5, HostInjects(done),
                      Head(stream).event.kind = "Pointer", injector' # None
               PROVE  host'.keys = { windows_key_mapping[k] : k \in Head(stream).held }
    OBVIOUS
  <2>1. PICK event \in Event :
          /\ event = Head(stream).event /\ injector \in Injector /\ IsInjective(injector.pressed_keys)
          /\ stream # <<>>
          /\ injector' = None \/ injector' = Recorded(event)
    BY Injected DEF Dropped
  <2>2. Range(injector'.pressed_keys) = Range(injector.pressed_keys)
    BY <2>1, Records
  <2>3. host'.keys = { windows_key_mapping[k] : k \in Range(injector.pressed_keys) }
    BY <2>2 DEF HoldsKeys, Held
  <2>4. stream \in Seq(Messages) /\ injector # None
    BY <2>1, NotNone DEF Typed
  <2>5. PICK y : Path(stream, Range(injector.pressed_keys), y)
    BY <2>4 DEF Stacked
  <2>6. Head(stream).held = Range(injector.pressed_keys)
    BY <2>1, <2>4, <2>5, PathOfTail
  <2> QED
    BY <2>3, <2>6
<1>5. Typed /\ HoldsKeys /\ HoldsKeys' /\ Stacked => [A]_vars
  BY <1>4
<1>6. Spec => [][A]_vars
  <2> HIDE DEF A
  <2> QED
    BY <1>1, <1>2, <1>3, <1>5, HoldsAtFirst, TypedInvariant, PTL DEF Spec
<1> QED
  BY <1>6 DEF ClickHasItsModifiers
=============================================================================
