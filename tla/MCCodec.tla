------------------------------ MODULE MCCodec ------------------------------
(***************************************************************************)
(* The values of each type for TLC: the ends of its range and of the       *)
(* length classes, in words of three bytes standing for those of eight.    *)
(***************************************************************************)
EXTENDS Codec

AllKinds == {"bool", "u8", "u16", "u64", "i8", "i16", "i64", "present", "decimal", "f64"}
F64Only == {"f64"}

Boundaries(kind) ==
    CASE kind = "bool" -> {0, 1}
      [] kind = "u8" -> {0, 127, 128, 255}
      [] kind = "u16" -> {127, 16383, 16384, 65535}
      [] kind = "u64" -> {16384, 65536, 16777215}
      [] kind = "i8" -> {-128, -65, -64, -1, 63, 64, 127}
      [] kind = "i16" -> {-32768, -8193, -8192, 8191, 8192, 32767}
      [] kind = "i64" -> {-8388608, -32769, -32768, -1, 32768, 8388607}
      [] kind = "present" -> {1}
      [] kind = "decimal" -> {<<0, 0>>, <<-8388608, -128>>, <<64, -1>>}
      [] kind = "f64" -> {DoubleOfBits(0)}

WithBits(kind) == {DoubleOfBits(0), DoubleOfBits(1)}
=============================================================================
