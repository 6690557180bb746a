---------------------------- MODULE MC_DyldLink ----------------------------
(* Instances of DyldLink for TLC: a library of the launch, one that a bundle *)
(* brings with it, and bundles whose links fail in each of the ways.         *)
EXTENDS DyldLink, TLC

AtLaunch == <<"libSystem">>

LibraryModulesOf == [libSystem  |-> <<"s1", "s2", "s3">>,
                     libNew     |-> <<"n1">>,
                     libMissing |-> << >>]

InitModuleOf == [libSystem |-> "s3", libNew |-> None, libMissing |-> None]

\* A public b2 is in the way of a public b1 and of s2.
SymbolsOf == [exe |-> {}, b1 |-> {"t"}, b2 |-> {"t", "u"}, b3 |-> {"w"}, b4 |-> {},
              s1 |-> {"x"}, s2 |-> {"v", "u"}, s3 |-> {}, n1 |-> {"y"}]

ReferencesOf == [exe |-> << >>, b1 |-> <<"y", "v", "w">>, b2 |-> << >>,
                 b3 |-> <<"y">>,
                 b4 |-> << >>, s1 |-> << >>, s2 |-> <<"x">>, s3 |-> << >>, n1 |-> <<"x">>]

DependentsOf == [b1 |-> <<"libSystem", "libNew">>, b2 |-> << >>, b3 |-> << >>,
                 b4 |-> <<"libNew", "libMissing">>]

\* As dlopen() links, and as a handler does
PrivateOrPublic == {<<TRUE, TRUE>>, <<FALSE, FALSE>>}

\* As any program may
AnyOptions == BOOLEAN \X BOOLEAN
=============================================================================
