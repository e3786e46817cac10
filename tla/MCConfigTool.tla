--------------------------- MODULE MCConfigTool ---------------------------
(* Instances of ConfigTool for TLC: the enum Options1 of the tool's          *)
(* setup_data.h with its mask, and option bytes with reserved bits.          *)
EXTENDS ConfigTool

CONSTANTS No, AP, Sta, Both, Auto_, Next_

MCItemBits == [i \in Item |->
    CASE i = No -> {} [] i = AP -> {0} [] i = Sta -> {1} [] i = Both -> {0, 1}
      [] i = Auto_ -> {2} [] i = Next_ -> {3}]
MCMaskOf == [i \in Item |-> IF i = Next_ THEN {} ELSE {0, 1, 2}]

(* 0x04, 0x0B, and 0x05 and 0x11 with bits that have no name.                *)
MCOptions == {{2}, {0, 1, 3}, {0, 2}, {0, 4}}

FieldsOf(size, version, opts) ==
    [size |-> size, version |-> version, opts |-> opts]
WithCrc(b, words) == Image(Crc(b, words), b, words)

(* Good images, one that asks for its CRC, one of a shorter structure, one   *)
(* cut short, one of another version, and one with a byte changed.           *)
MCForeign ==
    {WithCrc(FieldsOf(FullWords - 1, Version, o), FullWords) : o \in Options}
    \union {Image(AutoCrc, FieldsOf(FullWords - 1, Version, {2}), FullWords),
            WithCrc(FieldsOf(FullWords - 2, Version, {2}), FullWords - 1),
            WithCrc(FieldsOf(FullWords - 1, Version, {2}), FullWords - 1),
            WithCrc(FieldsOf(FullWords - 1, Version + 1, {2}), FullWords),
            Image(Crc(FieldsOf(FullWords - 1, Version, {}), FullWords),
                  FieldsOf(FullWords - 1, Version, {2}), FullWords)}
=============================================================================
