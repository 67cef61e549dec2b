-------------------------- MODULE MCPropertiesLoad --------------------------
(* Inputs for PropertiesLoad.                                              *)
EXTENDS PropertiesLoad

(* ASCII lines: blank, '=', backslash, 'u', the hex digits '0' and 'a'.    *)
MCAsciiAlphabet == {SP, EQ, BSL, U, 48, 97}

(* UTF-8 text: '=', 'a' and the two bytes of U+00E9.                       *)
MCUtf8Alphabet == {EQ, 97, 195, 169}
=============================================================================
