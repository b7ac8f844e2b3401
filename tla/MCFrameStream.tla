---------------------------- MODULE MCFrameStream ----------------------------
(* FrameStream with bytes of sixteen values, text symbols of eight, fields  *)
(* of one or two bytes, and a minute of two ticks and an hour of four.      *)
EXTENDS FrameStream

\* Of these a creator takes the first; the last is too long in bytes.
Offered == {<<1>>, <<>>, <<Wide, Wide>>}
SomePayloads == {<<>>, <<0>>}
SomeSignatures == {<<15>>}

Hourly == [version |-> 1, domain |-> <<1>>, date |-> 8, payload |-> <<1>>,
           signature |-> <<0>>]
ByMinute == [version |-> 2, domain |-> <<>>, date |-> 34, payload |-> <<>>,
             signature |-> <<1>>]
Passed == {Hourly, ByMinute}
=============================================================================
