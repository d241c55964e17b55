---------------------------- MODULE MCWebServices ----------------------------
\* A protected network and an open one.
EXTENDS WebServices

SubmissionsValue == {<<"a", "p">>, <<"b", "">>}
=============================================================================
