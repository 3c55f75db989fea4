------------------------------ MODULE Keyboard ------------------------------
(***************************************************************************)
(* The keys of dc-protocol, the keys of the viewer's window they come from *)
(* and the Windows scan codes they are injected with.                      *)
(***************************************************************************)
EXTENDS Naturals, Sequences

\* Names that are numbered one after the other.
From(first, names) == { <<names[i], first + i - 1>> : i \in DOMAIN names }

Digits10 == <<"0", "1", "2", "3", "4", "5", "6", "7", "8", "9">>
Named(prefix, suffixes) == [i \in DOMAIN suffixes |-> prefix \o suffixes[i]]

KeyTable ==
  UNION {
    From(1, Named("Digit", Digits10)),
    From(16, <<"A", "B", "C", "D", "E", "F", "G", "H", "I", "J", "K", "L", "M", "N", "O",
               "P", "Q", "R", "S", "T", "U", "V", "W", "X", "Y", "Z">>),
    From(48, Named("F", <<"1", "2", "3", "4", "5", "6", "7", "8", "9", "10", "11", "12",
                          "13", "14", "15">>)),
    From(64, <<"ArrowDown", "ArrowLeft", "ArrowRight", "ArrowUp", "Apostrophe", "Backquote",
               "Backslash", "Comma", "Equal", "LeftBracket", "Minus", "Period",
               "RightBracket", "Semicolon", "Slash">>),
    From(80, <<"Backspace", "Delete", "End", "Enter", "Escape", "Home", "Insert",
               "ContextMenu", "PageDown", "PageUp", "Pause", "Space", "Tab", "NumLock",
               "CapsLock", "ScrollLock", "LeftShift", "RightShift", "LeftControl",
               "RightControl">>),
    From(112, Named("Numpad", Digits10) \o
              Named("Numpad", <<"Decimal", "Divide", "Multiply", "Subtract", "Add", "Enter">>)),
    From(128, <<"LeftAlt", "RightAlt", "LeftSuper", "RightSuper">>) }

KeyboardKey == { row[1] : row \in KeyTable }

(***************************************************************************)
(* map_key: what the window calls a key.  Most names are the same.         *)
(***************************************************************************)
Renamed ==
  { <<"Key" \o Digits10[i], "Digit" \o Digits10[i]>> : i \in DOMAIN Digits10 } \cup
  { <<"NumPad" \o Digits10[i], "Numpad" \o Digits10[i]>> : i \in DOMAIN Digits10 } \cup
  {<<"NumPadDot", "NumpadDecimal">>, <<"NumPadSlash", "NumpadDivide">>,
   <<"NumPadAsterisk", "NumpadMultiply">>, <<"NumPadMinus", "NumpadSubtract">>,
   <<"NumPadPlus", "NumpadAdd">>, <<"NumPadEnter", "NumpadEnter">>, <<"Down", "ArrowDown">>,
   <<"Left", "ArrowLeft">>, <<"Right", "ArrowRight">>, <<"Up", "ArrowUp">>,
   <<"Menu", "ContextMenu">>, <<"LeftCtrl", "LeftControl">>, <<"RightCtrl", "RightControl">>}

Unmapped == {"Unknown", "Count"}

WindowKey == (KeyboardKey \ { row[2] : row \in Renamed }) \cup { row[1] : row \in Renamed }

map_key ==
  [key \in WindowKey |->
     IF \E row \in Renamed : row[1] = key
     THEN (CHOOSE row \in Renamed : row[1] = key)[2] ELSE key]

(***************************************************************************)
(* windows_key_mapping: <<code, extended>>, or a virtual key.              *)
(***************************************************************************)
Plain ==
  From(1, <<"Escape", "Digit1", "Digit2", "Digit3", "Digit4", "Digit5", "Digit6", "Digit7",
            "Digit8", "Digit9", "Digit0", "Minus", "Equal", "Backspace", "Tab", "Q", "W", "E",
            "R", "T", "Y", "U", "I", "O", "P", "LeftBracket", "RightBracket", "Enter",
            "LeftControl", "A", "S", "D", "F", "G", "H", "J", "K", "L", "Semicolon",
            "Apostrophe", "Backquote", "LeftShift", "Backslash", "Z", "X", "C", "V", "B", "N",
            "M", "Comma", "Period", "Slash", "RightShift", "NumpadMultiply", "LeftAlt",
            "Space", "CapsLock", "F1", "F2", "F3", "F4", "F5", "F6", "F7", "F8", "F9", "F10">>)
  \cup From(70, <<"ScrollLock", "Numpad7", "Numpad8", "Numpad9", "NumpadSubtract", "Numpad4",
                  "Numpad5", "Numpad6", "NumpadAdd", "Numpad1", "Numpad2", "Numpad3",
                  "Numpad0", "NumpadDecimal">>)
  \cup From(87, <<"F11", "F12">>)

Extended ==
  {<<"NumpadEnter", 28>>, <<"RightControl", 29>>, <<"NumpadDivide", 53>>, <<"RightAlt", 56>>,
   <<"NumLock", 69>>, <<"Home", 71>>, <<"ArrowUp", 72>>, <<"PageUp", 73>>,
   <<"ArrowLeft", 75>>, <<"ArrowRight", 77>>, <<"End", 79>>, <<"ArrowDown", 80>>,
   <<"PageDown", 81>>, <<"Insert", 82>>, <<"Delete", 83>>, <<"LeftSuper", 91>>,
   <<"RightSuper", 92>>, <<"ContextMenu", 93>>}

Virtual == {"F13", "F14", "F15", "Pause"}

windows_key_mapping ==
  [key \in KeyboardKey |->
     IF key \in Virtual THEN <<key>>
     ELSE IF \E row \in Extended : row[1] = key
     THEN << (CHOOSE row \in Extended : row[1] = key)[2], TRUE >>
     ELSE << (CHOOSE row \in Plain : row[1] = key)[2], FALSE >>]

\* Every key has a mapping, and no two keys have the same.
ASSUME KeysAreDistinct ==
  /\ \A r1, r2 \in KeyTable : r1[2] = r2[2] => r1 = r2
  /\ KeyboardKey = { map_key[key] : key \in WindowKey }
  /\ KeyboardKey = Virtual \cup { row[1] : row \in Plain \cup Extended }
  /\ \A k1, k2 \in KeyboardKey : windows_key_mapping[k1] = windows_key_mapping[k2] => k1 = k2
=============================================================================
