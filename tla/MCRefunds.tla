----------------------------- MODULE MCRefunds ------------------------------
(* Instances of Refunds for TLC.                                           *)
EXTENDS Refunds, TLC

\* 50 yen for one dollar: one cent is half a yen.
MCRates == {<<50, 1>>}

\* Lines 277-301: whichever of the two currencies has minor units, and for
\* rates above and below one with ties and without, a conversion is off by at
\* most half a minor unit. It does not depend on the state: the initial ones do.
ConversionWithinHalfUnit ==
  Init =>
    \A amount \in 0 .. 250, from \in Currencies, to \in Currencies,
       r \in {<<50, 1>>, <<1, 50>>, <<1493, 10>>, <<7, 1000>>, <<1, 1>>} :
      WithinHalfUnit(amount, from, to, r)

=============================================================================
