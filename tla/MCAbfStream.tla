---------------------------- MODULE MCAbfStream ----------------------------
\* Bytes of three values; payloads of one and two bytes with and without zeros.
EXTENDS AbfStream

MCPayloads == {<<0>>, <<1>>, <<0, 0>>, <<2, 0>>, <<0, 1>>, <<1, 2>>}
=============================================================================
