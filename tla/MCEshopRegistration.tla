-------------------------- MODULE MCEshopRegistration --------------------------
(* Three requests in progress. Each setting keeps apart what one property    *)
(* excludes, and lets all else overlap.                                    *)
EXTENDS EshopRegistration, TLC

MCSettings == {{{"status"}, {"save", "unregister"}}, {{"save", "unregister"}},
               {{"signup"}},
               {{"signup", "died"}, {"signup", "unregister"}},
               {{"put"}, {"add"}, {"put", "add"}}}

Symmetry == Permutations(Thread) \cup Permutations(Account) \cup Permutations(Name)
              \cup Permutations(Entry)
=============================================================================
