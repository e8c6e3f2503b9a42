SPECIFICATION Spec
CONSTANTS
    Tab = {t1, t2}
    Console = {t1}
    Account = {a1, a2}
    Session = {s1, s2, s3}
    Request = {r1}
    Socket = {k1, k2}
    t1 = t1 t2 = t2 a1 = a1 a2 = a2 s1 = s1 s2 = s2 s3 = s3 r1 = r1 k1 = k1 k2 = k2
    None = None
SYMMETRY Symmetry
INVARIANTS TypeOK OneSocket StatusIsTrue
PROPERTIES ActsForShown
