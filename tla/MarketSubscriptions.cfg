\* Three strategies are the least with which a symbol can lose a holder and
\* keep two; three symbols let one command mix fresh, shared and already held
\* ones.  Nothing needs a bound.
SPECIFICATION GatewaySpec
CONSTANTS
    Strategies = {t1, t2, t3}
    Symbols = {s1, s2, s3}
INVARIANTS
    RefCountExact
    StreamsAreTrue
