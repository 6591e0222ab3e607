----------------------------- MODULE MCModbusBus -----------------------------
(* Every function once, each check of each handler once, the bus being used *)
(* again after it.                                                          *)
EXTENDS ModbusBus

Req(to, fc, arg, data) == [to |-> to, fc |-> fc, arg |-> arg, data |-> data, raw |-> FALSE]
Raw(to, fc, data) == [to |-> to, fc |-> fc, arg |-> <<4>>, data |-> data, raw |-> TRUE]
Bytes(s) == [i \in DOMAIN s |-> <<s[i]>>]
Ident(to, code, object, room) == Req(to, 43, <<code, object, room>>, <<>>)

\* All functions, as the client's own functions send them.
Plain(to) ==
  { Req(to, 1, <<0, 9>>, <<>>), Req(to, 2, <<0, 1>>, <<>>),
    Req(to, 3, <<0, 2>>, <<>>), Req(to, 4, <<65535, 1>>, <<>>),
    Req(to, 5, <<0, 1>>, <<>>), Req(to, 6, <<1, 300>>, <<>>),
    Req(to, 15, <<0, 9>>, Bytes(<<1, 1>>)), Req(to, 16, <<0, 1>>, Bytes(<<0, 5>>)),
    Req(to, 20, <<1, 0, 1>>, <<>>), Req(to, 21, <<1, 0, 1>>, Bytes(<<0, 5>>)),
    Req(to, 23, <<0, 1, 1, 1>>, Bytes(<<0, 5>>)),
    Ident(to, 1, 0, 3), Ident(to, 2, 3, 4), Ident(to, 3, 128, 5), Ident(to, 4, 129, 1) }

\* Arguments the client refuses.
Bad ==
  { Req(<<1>>, 1, <<0, 2001>>, <<>>), Req(<<1>>, 3, <<65535, 2>>, <<>>),
    Req(<<1>>, 20, <<0, 0, 1>>, <<>>), Req(<<1>>, 21, <<1, 10000, 1>>, <<>>),
    Req(<<1>>, 23, <<0, 1, 0, 122>>, <<>>), Ident(<<1>>, 3, 127, 5), Ident(<<1>>, 4, 7, 1) }

\* Requests only nmbs_send_raw_pdu sends, one for each check of the handlers.
Malformed ==
  { Raw(<<1>>, 7, <<>>), Raw(<<1>>, 1, Bytes(<<0, 0, 7, 209>>)),
    Raw(<<1>>, 3, Bytes(<<255, 255, 0, 2>>)), Raw(<<1>>, 5, Bytes(<<0, 0, 0, 1>>)),
    Raw(<<1>>, 15, Bytes(<<0, 0, 0, 9, 1, 1>>)), Raw(<<1>>, 16, Bytes(<<0, 0, 0, 1, 255>>)),
    Raw(<<1>>, 16, Bytes(<<0, 0, 0, 1, 3, 0, 5, 5>>)),
    Raw(<<1>>, 20, Bytes(<<8, 6, 0, 1, 0, 0, 0, 1, 0>>)),
    Raw(<<1>>, 20, Bytes(<<7, 6, 0, 0, 0, 0, 0, 1>>)),
    Raw(<<1>>, 20, Bytes(<<14, 6, 0, 1, 0, 0, 0, 1, 6, 0, 1, 0, 0, 0, 1>>)),
    Raw(<<1>>, 21, Bytes(<<3, 6, 0, 1>>)), Raw(<<1>>, 21, Bytes(<<9, 6, 0, 1, 0, 0, 0, 2, 0, 5>>)),
    Raw(<<1>>, 21, Bytes(<<14, 6, 0, 1, 0, 0, 0, 0, 6, 0, 1, 0, 0, 0, 0>>)),
    Raw(<<1>>, 21, Bytes(<<252>>)),
    Raw(<<1>>, 23, Bytes(<<0, 0, 0, 1, 0, 0, 0, 1, 4, 0, 5, 0, 5>>)),
    Raw(<<1>>, 43, Bytes(<<13, 1, 0>>)), Raw(<<1>>, 43, Bytes(<<14, 5, 0>>)),
    Raw(<<1>>, 43, Bytes(<<14, 2, 9>>)), Raw(<<1>>, 43, Bytes(<<14, 4, 130>>)),
    Raw(<<2>>, 20, Bytes(<<14, 6, 0, 1, 0, 0, 0, 1, 6, 0, 1, 0, 0, 0, 1>>)),
    Raw(<<2>>, 7, <<>>) }

First == Plain(<<1>>) \cup Plain(<<2>>) \cup Plain(<<0>>) \cup Bad \cup Malformed

Probe == Req(<<1>>, 3, <<0, 1>>, <<>>)

\* Calls with the line disturbed.
Core ==
  { Probe, Req(<<1>>, 16, <<0, 1>>, Bytes(<<0, 5>>)), Req(<<1>>, 20, <<1, 0, 1>>, <<>>),
    Ident(<<1>>, 1, 0, 3), Req(<<2>>, 3, <<0, 1>>, <<>>), Req(<<2>>, 23, <<0, 1, 1, 1>>, Bytes(<<0, 5>>)),
    Req(<<0>>, 6, <<1, 300>>, <<>>) }

MCPlans ==
  { [calls |-> << First, {Probe} >>, faults |-> 0],
    [calls |-> << Core, {Probe, Req(<<1>>, 6, <<1, 300>>, <<>>)} >>, faults |-> 1] }

MCObjects ==
  [id \in {0, 1, 2, 4, 5, 128, 129, 131, 132} |-> IF id = 2 THEN Bytes(<<50, 51>>) ELSE Bytes(<<50>>)]

MCCallbacks == Functions \ {2, 4}
MCNoise == { <<2>>, <<255>> }
MCValue == <<7>>
=============================================================================
