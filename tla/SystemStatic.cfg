SPECIFICATION Spec
INVARIANT StaticLoadedMeansCached
