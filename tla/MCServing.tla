------------------------------ MODULE MCServing ------------------------------
EXTENDS Serving

MCTargets == {"UTF8_STRING", "image/png", "x-special"}

\* Text beside an image, an image beside a name that is not a target, and what
\* passes for one of our own sources.
MCMimeLists ==
  {<<"image/png", "text/html">>, <<"image/png", "x-special">>, TextMimes}
=============================================================================
