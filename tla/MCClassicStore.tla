----------------------------- MODULE MCClassicStore -----------------------------
(* Instances of ClassicStore for TLC: an alert of each of the three special kinds *)
(* and heartbeats with and without an empty piece of data.                          *)
EXTENDS ClassicStore, ClassicSamples

MCMessages ==
    {Full(<<1>>), Correlation(<<2>>), Overflow(<<3>>),
     Heartbeat(<<4>>, Two(<<4>>)), Heartbeat(<<5>>, <<Elem(Empty), Elem(<<5>>)>>)}

=============================================================================
