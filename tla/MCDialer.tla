------------------------------- MODULE MCDialer -------------------------------
\* Two cards; a name with two addresses, of which one may go.
EXTENDS Dialer

TwoCards == <<"eth0", "eth1">>
TwoAnswers == {<<"a", "b">>, <<"b">>}

===============================================================================
