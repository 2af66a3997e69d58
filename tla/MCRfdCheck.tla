----------------------------- MODULE MCRfdCheck -----------------------------
EXTENDS RfdCheck

MCNumbers == {<<2, 1>>, <<2, 2>>}

Dir(form, num, slug) == [form |-> form, num |-> num, slug |-> slug]

\* Two slugs of one number, a second number, another organization's number,
\* an upper-case digit, an upper-case slug, and one of three digits.
ProperNames == {Dir("hex", <<2, 1>>, 1), Dir("hex", <<2, 1>>, 2),
                Dir("hex", <<2, 2>>, 1), Dir("hex", <<1, 1>>, 1),
                Dir("other", <<2, 1>>, 1), Dir("upper", <<2, 1>>, 1),
                Dir("loose", <<2, 2>>, 1)}
=============================================================================
