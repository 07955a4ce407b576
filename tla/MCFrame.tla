------------------------------- MODULE MCFrame -------------------------------
EXTENDS Frame

\* one payload of every length from nothing to one more than a header of two
\* binary digits can say
MCPayloads == {<<>>, <<1>>, <<0, 1>>, <<1, 1, 0>>, <<1, 0, 0, 1>>}
=============================================================================
