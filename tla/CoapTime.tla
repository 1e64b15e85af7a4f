------------------------------ MODULE CoapTime ------------------------------
(***************************************************************************)
(* time_has_passed() (coap_channel.h) on the readings of a clock that      *)
(* wraps at 2 * half; half is 0x80000000 in the code.  CoapChannel keeps   *)
(* the ticks left to a timeout in the place of two such readings;          *)
(* theorem ExpiryIsExact of CoapChannel_proofs says why it may.            *)
(***************************************************************************)
EXTENDS Integers

\* now and tick are system_tick_t, and so are their differences.
time_has_passed(half, now, tick) ==
  IF now >= tick THEN now - tick <= half - 1 ELSE tick - now >= half

\* A reading that fewer ticks than a turn of the clock after another.
After(half, reading, ticks) ==
  IF reading + ticks < 2 * half THEN reading + ticks ELSE reading + ticks - 2 * half
=============================================================================
