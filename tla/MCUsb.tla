------------------------------- MODULE MCUsb -------------------------------
EXTENDS UsbHost

MCPollOrder == <<"a", "b">>

\* A hub in root port "a", with another in its first port; a stick that is
\* two, in port "b" or on the first hub; a stick at the end of the chain; and
\* a device of no class on the first hub.
MCKind == [outer |-> "hub", inner |-> "hub", pair |-> "hid", stick |-> "hid", odd |-> "other"]
MCSticks == [outer |-> 0, inner |-> 0, pair |-> 2, stick |-> 1, odd |-> 0]
MCNbrPorts == [outer |-> 2, inner |-> 1, pair |-> 0, stick |-> 0, odd |-> 0]
MCFits == [outer |-> {<<"a", 0>>}, inner |-> {<<"outer", 1>>},
           pair  |-> {<<"b", 0>>, <<"outer", 2>>}, stick |-> {<<"inner", 1>>, <<"outer", 2>>},
           odd   |-> {<<"outer", 2>>}]
=============================================================================
