---------------------------- MODULE MCPromptPlan ----------------------------
\* Strings for the model checker. "xa" of user "b" and "x" of user "ab" would be
\* one point; the two users here have ids of one character.
EXTENDS PromptPlan

TwoUsers == {<<"a">>, <<"b">>}
TwoTexts == {<<"x">>, <<"x", "a">>}
TwoUuids == <<<<"c1">>, <<"c2">>>>
=============================================================================
