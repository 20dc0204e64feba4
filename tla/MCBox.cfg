CONSTANTS
    Node = {1, 2, 3}
    Heaps <- MCHeaps
    Roots <- MCRoots
    Texts = {"a"}
SPECIFICATION Spec
INVARIANT RoundTrip
