SPECIFICATION Spec
INVARIANTS ComputesGolden BuffersSettled PimSeesData
