------------------------------ MODULE MCPrimes ------------------------------
(* Instances of PrimeService, and the table of primes against a definition. *)
EXTENDS PrimeService

(* The nth prime is the number with n primes up to and including itself. *)
Prime(p) == p > 1 /\ \A a, b \in 2..p : a * b # p
ASSUME \A p \in 2..40 :
    Prime(p) => ComputePrime(Cardinality({q \in 1..p : Prime(q)})) = p
=============================================================================
