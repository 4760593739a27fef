---------------------------- MODULE MCTileFetch ----------------------------
EXTENDS TileFetch
LastOfThree == <<1, 2>>
OneView == {{"a"}}
=============================================================================
