-------------------------------- MODULE CInt --------------------------------
(***************************************************************************)
(* The C++ integer operations that TLA+ integers do not have and that the   *)
(* firmware's results depend on: division truncates toward zero, a cast to  *)
(* a signed type keeps the value modulo its width, and the clamp template.  *)
(***************************************************************************)
EXTENDS Integers

(* a / b of C++ for b > 0: the quotient is rounded toward zero.            *)
TruncDiv(a, b) == IF a >= 0 THEN a \div b ELSE -((-a) \div b)

(* static_cast to the signed type that has m values (m = 2^32: int32_t).   *)
ToSigned(x, m) == ((x + m \div 2) % m) - m \div 2

SignedValues(m) == (-(m \div 2))..(m - m \div 2 - 1)

(* uint8_t and int16_t, and the cast to the latter.                        *)
Byte  == 0..255
Int16 == SignedValues(65536)
ToInt16(x) == ToSigned(x, 65536)

(* PIDInt::clamp, and the two ifs of PwmDriver::setPower.                  *)
Clamp(v, lo, hi) == IF v < lo THEN lo ELSE IF v > hi THEN hi ELSE v

(* PIDInt::abs32.                                                          *)
Abs32(v) == IF v < 0 THEN -v ELSE v
=============================================================================
