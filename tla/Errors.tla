------------------------------- MODULE Errors -------------------------------
(***************************************************************************)
(* The error values that the reliability layers branch on.                 *)
(*                                                                         *)
(* retry.go, circuit.go and client.go never look at the text of an error:  *)
(* they unwrap it to the first *ProviderError of the chain, if there is    *)
(* one, and read its StatusCode, Retryable and Fallback fields.  An error  *)
(* is that record; wrapping with %w does not change it.                    *)
(***************************************************************************)
EXTENDS Integers

ErrorType == [provider : BOOLEAN, status : Nat, retryable : BOOLEAN, fallback : BOOLEAN]

\* A *ProviderError, reduced to the fields that are read.
ProviderError(status, retryable, fallback) ==
    [provider |-> TRUE, status |-> status, retryable |-> retryable, fallback |-> fallback]

\* Any other error: a context error, a fmt.Errorf, an errors.New.
PlainError == [provider |-> FALSE, status |-> 0, retryable |-> FALSE, fallback |-> FALSE]

\* The absence of an error (Go's nil).
NoError == [provider |-> FALSE, status |-> 200, retryable |-> FALSE, fallback |-> FALSE]

\* Mutant of parseError: every answer may fall back.
parseErrorFallsBack(status) ==
    ProviderError(status, status \in {408, 429} \/ status >= 500, TRUE)

\* An HTTP answer that is not a success.
parseError(status) ==
    ProviderError(status, status \in {408, 429} \/ status >= 500, status # 400)

\* A transport failure, which includes a request cut by its context.
networkError == ProviderError(0, TRUE, TRUE)

\* The rejection by an open circuit.
circuitOpen == ProviderError(0, FALSE, TRUE)

\* A capability the wrapped provider lacks, and the same on a call that
\* names its provider and must not be routed to another one.
Unsupported == ProviderError(400, FALSE, TRUE)
unsupportedTargeted == ProviderError(400, FALSE, FALSE)

IsRetryable(err) == err.provider /\ err.retryable
IsFallback(err) == err.provider => err.fallback
tripsBreaker(err) == err.provider => err.status \notin {400, 401, 403}

\* The range of the constructors, over the statuses given.
ErrorOver(Status) ==
    {parseError(s) : s \in Status}
        \cup {PlainError, networkError, circuitOpen, Unsupported, unsupportedTargeted}
=============================================================================
