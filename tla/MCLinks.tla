------------------------------- MODULE MCLinks -------------------------------
EXTENDS Links

\* Each way to attach, in two skeletons.
MCSkeletons == {<<"probe", "bare", "ops">>, <<"link", "ops_link">>}

==============================================================================
