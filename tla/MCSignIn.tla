------------------------------ MODULE MCSignIn ------------------------------
EXTENDS SignIn, TLC

CONSTANTS g1, g2, t1, t2, p1, p2, p3, s1, s2, s3, d1, d2, d3, d4

\* One browser per person, so that a person stands for the browser and the email.
OwnBrowser == [p \in Browsers |-> p]

BothBegun == {<<p1, s1>>, <<p2, s2>>}
AllBegun == {<<p1, s1>>, <<p2, s2>>, <<p3, s3>>}
OneBegun == {<<p1, s1>>}
NoneBegun == {}

\* Each browser's own link, with p2's in p1's browser, and with p1's state in p2's.
OwnLinks == {<<p[1], p[1], p[2]>> : p \in Begun}
SharedLinks == OwnLinks \cup {<<p1, p2, s2>>, <<p2, p2, s1>>}

\* Two people on one state.
CrossedLinks == {<<p1, p1, s1>>, <<p2, p2, s1>>}

\* Whichever session and state a browser has come to have; with OneBegun only
\* p1 is ever sent the state s1.
OwnPersonLinks == {<<p, p, s>> : p \in Browsers, s \in Sessions}
SentLinks == OwnPersonLinks \ {<<p2, p2, s1>>}
MixedLinks == OwnPersonLinks \cup {<<p1, p2, s2>>}

BegunSymmetric == Permutations(Goroutines) \cup Permutations(DocIds)
SessionSymmetric == Permutations(Goroutines) \cup Permutations(Sessions) \cup Permutations(Tasks) \cup Permutations(DocIds)
=============================================================================
